---------------------------- MODULE Spec2Model ----------------------------
(***************************************************************************)
(* Extension Host Protocol Runtime of hamaluik/hermes: the line-framed     *)
(* JSON-RPC substrate that every example extension re-implements.          *)
(*                                                                         *)
(* Three families of the runtime are modelled, selected by `variant`:      *)
(*   "dialog"  - the single-threaded reentrant send_request of             *)
(*               dialog-extension.py (dialogs.py, editor-ops.py and        *)
(*               windows.py share the same send_request/handle_message),   *)
(*   "minimal" - minimal.py, whose router handle_request has no            *)
(*               notification branch,                                      *)
(*   "wizard"  - wizard-extension.py: a main reader thread, background     *)
(*               worker threads and an HTTP listener thread,               *)
(*   "windows" - windows.py: the single-threaded send_request with a       *)
(*               window handle and an HTTP listener.                       *)
(***************************************************************************)
EXTENDS Integers, Sequences, FiniteSets, TLC

(* ------------------------------ bounds -------------------------------- *)

\* frames the host writes to the stdin of the wizard in one run
MaxMsgs == 3
\* the same, in the short runs of the wizard
ShortMsgs == 2
MaxMsgsWrites == 2
\* frames the host writes to the stdin of a single-threaded extension
MaxMsgsST == 4
MaxMsgsCaps == 3
\* frames the host writes to the stdin of windows.py
MaxMsgsWin == 7
\* pieces (header lines, blank lines, body text) the stdin of a
\* read_message run is made of
MaxPieces == 3
\* frames written back to back by write_message and then read
MaxFrames == 2
MaxInbound == 2
\* POST requests the browser makes to the wizard's HTTP listener
MaxPosts == 2
MaxHttpPosts == 2
\* the same, in the short runs of the wizard
ShortPosts == 1

(* ------------------------------ messages ------------------------------ *)

\* msg.get("id") is None
NoId == 0

\* the ids the host gives its own Requests, each used once
HostReqIds == {7, 8}

\* an id the process never issues, carried by a stray Response
StrayIds == {99}

\* A JSON-RPC message: `id` (NoId when absent), `method` ("none" when
\* absent), params.command, `body` ("none" for a Request or Notification;
\* for a Response "ok" is a result that reports success, "fail" a result
\* that does not (success false, path null, no windowId), "error" an error
\* object, and "e32601"/"e32009" the error codes this process mints) and
\* `arg`, the window handle carried (0: none).
Msg(id, method, command, body, arg) ==
    [id |-> id, method |-> method, command |-> command, body |-> body, arg |-> arg]

Request(id, method, arg) == Msg(id, method, "none", "none", arg)
Response(id, body) == Msg(id, "none", "none", body, 0)
\* an error object that drops the id it answers
ErrorResponseNull(id, code) == Msg(NoId, "none", "none", code, 0)
ErrorResponse(id, code) == Msg(id, "none", "none", code, 0)
\* read_message() returned None
EndOfStream == Msg(NoId, "EOF", "none", "none", 0)

\* read_message() raised: the frame's Content-Length is not an integer
\* (ValueError) or its body is not JSON (JSONDecodeError)
BadFrame == Msg(NoId, "BAD", "none", "none", 0)

\* the reads after which the loops stop, by end of stream only
LeavesLoopAtEndOnly(msg) == msg = EndOfStream

\* the reads after which main() leaves its loop: None (break), or an
\* exception out of read_message (except Exception: break)
LeavesLoop(msg) == msg \in {EndOfStream, BadFrame}

\* "result" in msg or "error" in msg
IsResponse(msg) == msg.body # "none"

VARIABLES
    variant,           \* which extension runs
    inbox,             \* frames written by the host, not yet read (stdin)
    outbox,            \* frames written by the process, in order (stdout)
    hostSent,          \* number of frames the host has written
    next_id,           \* _next_id
    pending,           \* _pending: id -> stored Response (or Event, wizard)
    stack,             \* single-threaded: the active send_request calls,
                       \* outermost first
    th,                \* per thread (0: main, 1..: workers): position/locals
    evSet,             \* wizard: ids whose threading.Event has been set
    wizard_result,     \* wizard: the Interaction Result slot
    wizard_event,      \* wizard: wizard_event.is_set()
    wizard_window_id,  \* wizard: the window handle held (0: None);
                       \* windows.py: its global window_id
    http_server,       \* wizard, windows.py: the global http_server (0: None)
    listening,         \* wizard, windows.py: servers whose serve_forever
                       \* loop runs
    hpc,               \* wizard: position of the HTTP handler in do_POST
    posts,             \* wizard: number of POSTs made
    started,           \* wizard: number of worker threads started;
                       \* windows.py: number of listener threads started
    hist,              \* history of events the properties speak about
    rd                 \* read_message: the characters of stdin not yet
                       \* read and the locals of the running call

vars == <<variant, inbox, outbox, hostSent, next_id, pending, stack, th, evSet,
          wizard_result, wizard_event, wizard_window_id, http_server, listening,
          hpc, posts, started, hist, rd>>

\* all but the reader
procVars == <<variant, inbox, outbox, hostSent, next_id, pending, stack, th, evSet,
              wizard_result, wizard_event, wizard_window_id, http_server, listening,
              hpc, posts, started, hist>>

wizVars == <<evSet, wizard_result, wizard_event, wizard_window_id, http_server,
             listening, hpc, posts, started>>

Main == 0
\* the worker threads handle_command starts, one per wizard invocation;
\* two are enough for invocations that overlap
Workers == {1, 2}
Threads == {Main} \cup Workers

SingleThreaded == {"dialog", "minimal"}

\* dialogs.py and editor-ops.py: the loops of dialog-extension.py with
\* command handlers of one send_request each
TestExtensions == {"dialogs", "editor-ops"}

\* the variants whose only thread is main()
Sequential == SingleThreaded \cup TestExtensions

\* a command each extension registers (capabilities.commands)
KnownCommand ==
    CASE variant = "dialog" -> "dialog/loadPatient"
      [] variant = "minimal" -> "minimal/setPatient"
      [] variant = "windows" -> "window-test/open"
      [] variant = "dialogs" -> "dialog-test/confirm"
      [] variant = "editor-ops" -> "editor-test/patch"
      [] OTHER -> "wizard/patientLookup"

\* handle_initialize: result.name
ExtensionName ==
    CASE variant = "dialog" -> "Dialog Extension"
      [] variant = "minimal" -> "Minimal Extension"
      [] variant = "windows" -> "Window Test"
      [] variant = "dialogs" -> "Dialog Test"
      [] variant = "editor-ops" -> "Editor Operations Test"
      [] OTHER -> "Patient Lookup Wizard"

\* handle_initialize: result.capabilities.commands, the declared commands
RegisteredCommands ==
    CASE variant = "windows" ->
            {"window-test/open", "window-test/close", "window-test/open-modal"}
      [] variant = "dialogs" ->
            {"dialog-test/message-info", "dialog-test/message-warn",
             "dialog-test/message-error", "dialog-test/confirm",
             "dialog-test/open-file", "dialog-test/open-files",
             "dialog-test/save-file", "dialog-test/select-dir"}
      [] variant = "editor-ops" ->
            {"editor-test/get-hl7", "editor-test/get-json", "editor-test/get-yaml",
             "editor-test/get-toml", "editor-test/patch", "editor-test/set"}
      [] OTHER -> {KnownCommand}

\* handle_initialize: the Response to the initialize Request `id`, whose
\* result carries the extension's name and its declared commands
handle_initialize(id) ==
    [id |-> id, method |-> "none", command |-> "none", body |-> "ok", arg |-> 0,
     name |-> ExtensionName, commands |-> RegisteredCommands]

Last(s) == s[Len(s)]
Front(s) == SubSeq(s, 1, Len(s) - 1)

(* ------------------------ framing: read_message ----------------------- *)
(* stdin is a sequence of characters.  "Content-Length" stands for the   *)
(* fourteen characters of that word, none of which is a colon or white    *)
(* space; it occurs in header lines only.  sys.stdin is a text stream    *)
(* that ends its lines at "\n" and leaves "\r" alone.                     *)

Whitespace == {" ", "\r", "\n"}
DigitChars == <<"0", "1", "2", "3", "4", "5", "6", "7", "8", "9">>
Digits == {DigitChars[i] : i \in 1..10}

Min(S) == CHOOSE i \in S : \A j \in S : i <= j
Max(S) == CHOOSE i \in S : \A j \in S : j <= i

\* sys.stdin.readline(): up to and with the next "\n", what is left when
\* there is none, "" at end of file
readline(in) ==
    LET nl == {i \in 1..Len(in) : in[i] = "\n"} IN
    IF nl = {} THEN in ELSE SubSeq(in, 1, Min(nl))

\* str.strip()
strip(s) ==
    LET idx == {i \in 1..Len(s) : s[i] \notin Whitespace} IN
    IF idx = {} THEN <<>> ELSE SubSeq(s, Min(idx), Max(idx))

\* ":" in line
HasColon(line) == \E i \in 1..Len(line) : line[i] = ":"

\* line.split(":", 1), stripped
HeaderKey(line) ==
    strip(SubSeq(line, 1, Min({i \in 1..Len(line) : line[i] = ":"}) - 1))
HeaderValue(line) ==
    strip(SubSeq(line, Min({i \in 1..Len(line) : line[i] = ":"}) + 1, Len(line)))

\* the digits of s after an optional sign
Unsigned(s) ==
    IF strip(s) # <<>> /\ strip(s)[1] \in {"-", "+"} THEN Tail(strip(s)) ELSE strip(s)

\* int(s) does not raise ValueError
IsInt(s) == Unsigned(s) # <<>> /\ \A i \in 1..Len(Unsigned(s)) : Unsigned(s)[i] \in Digits

DigitValue(c) == CHOOSE d \in 0..9 : DigitChars[d + 1] = c

RECURSIVE NatOf(_)
NatOf(d) == IF Len(d) = 0 THEN 0 ELSE 10 * NatOf(Front(d)) + DigitValue(Last(d))

\* int(s)
IntOf(s) == IF strip(s)[1] = "-" THEN 0 - NatOf(Unsigned(s)) ELSE NatOf(Unsigned(s))

\* str(n) for n >= 0
RECURSIVE NatChars(_)
NatChars(n) ==
    IF n < 10 THEN <<DigitChars[n + 1]>>
    ELSE NatChars(n \div 10) \o <<DigitChars[(n % 10) + 1]>>

(* ------------------------------- JSON --------------------------------- *)
(* A JSON value is a number, a string (a sequence of characters), a       *)
(* literal or an object (a sequence of <<key, value>> pairs in insertion  *)
(* order).  "é" is the one character outside ASCII the model has.         *)

JNum(n) == [t |-> "num", n |-> n, s |-> <<>>, o |-> <<>>]
JStr(s) == [t |-> "str", n |-> 0, s |-> s, o |-> <<>>]
JLit(s) == [t |-> "lit", n |-> 0, s |-> s, o |-> <<>>]
JObj(o) == [t |-> "obj", n |-> 0, s |-> <<>>, o |-> o]
JNull == JLit(<<"n", "u", "l", "l">>)
JTrue == JLit(<<"t", "r", "u", "e">>)
JFalse == JLit(<<"f", "a", "l", "s", "e">>)

\* json.dumps of a string that leaves "é" as it is (what
\* ensure_ascii=False would do)
EscapeCharRaw(c) ==
    CASE c = "\"" -> <<"\\", "\"">>
      [] c = "\\" -> <<"\\", "\\">>
      [] c = "\n" -> <<"\\", "n">>
      [] OTHER -> <<c>>

\* json.dumps, one character of a string (ensure_ascii is on)
EscapeChar(c) ==
    CASE c = "\"" -> <<"\\", "\"">>
      [] c = "\\" -> <<"\\", "\\">>
      [] c = "\n" -> <<"\\", "n">>
      [] c = "é" -> <<"\\", "u", "0", "0", "e", "9">>
      [] OTHER -> <<c>>

RECURSIVE Escape(_)
Escape(s) == IF s = <<>> THEN <<>> ELSE EscapeChar(Head(s)) \o Escape(Tail(s))

DumpsString(s) == <<"\"">> \o Escape(s) \o <<"\"">>

\* json.dumps(v): separators ", " and ": ", keys in insertion order
RECURSIVE Dumps(_), DumpsItems(_)
Dumps(v) ==
    CASE v.t = "num" -> IF v.n < 0 THEN <<"-">> \o NatChars(0 - v.n) ELSE NatChars(v.n)
      [] v.t = "str" -> DumpsString(v.s)
      [] v.t = "lit" -> v.s
      [] OTHER -> <<"{">> \o DumpsItems(v.o) \o <<"}">>
DumpsItems(o) ==
    IF o = <<>> THEN <<>>
    ELSE DumpsString(o[1][1]) \o <<":", " ">> \o Dumps(o[1][2])
         \o (IF Len(o) > 1 THEN <<",", " ">> \o DumpsItems(Tail(o)) ELSE <<>>)

\* A parse: ok, the value, and the position after it.
Parsed(v, next) == [ok |-> TRUE, v |-> v, next |-> next]
NoParse == [ok |-> FALSE, v |-> JNull, next |-> 0]

JsonWhitespace == {" ", "\r", "\n", "\t"}

\* the first position from i on that holds no white space
SkipWs(s, i) == Min({j \in i..Len(s) : s[j] \notin JsonWhitespace} \cup {Len(s) + 1})

CharAt(s, i) == IF i \in 1..Len(s) THEN s[i] ELSE "EOF"

\* the characters of a string from position i (after the opening quote),
\* acc being those already decoded
RECURSIVE ParseChars(_, _, _)
ParseChars(s, i, acc) ==
    CASE CharAt(s, i) = "\"" -> Parsed(JStr(acc), i + 1)
      [] CharAt(s, i) \in {"EOF", "\n", "\r", "\t"} -> NoParse
      [] CharAt(s, i) = "\\" ->
            CASE CharAt(s, i + 1) = "\"" -> ParseChars(s, i + 2, Append(acc, "\""))
              [] CharAt(s, i + 1) = "\\" -> ParseChars(s, i + 2, Append(acc, "\\"))
              [] CharAt(s, i + 1) = "n" -> ParseChars(s, i + 2, Append(acc, "\n"))
              [] CharAt(s, i + 1) = "u"
                   /\ <<CharAt(s, i + 2), CharAt(s, i + 3), CharAt(s, i + 4), CharAt(s, i + 5)>>
                        = <<"0", "0", "e", "9">> ->
                    ParseChars(s, i + 6, Append(acc, "é"))
              [] OTHER -> NoParse
      [] OTHER -> ParseChars(s, i + 1, Append(acc, CharAt(s, i)))

\* the end of the run of digits that starts at i
DigitsEnd(s, i) == Min({j \in i..Len(s) : s[j] \notin Digits} \cup {Len(s) + 1})

ParseNat(s, i) ==
    LET e == DigitsEnd(s, i) IN
    IF e = i \/ (s[i] = "0" /\ e > i + 1) THEN NoParse
    ELSE Parsed(JNum(NatOf(SubSeq(s, i, e - 1))), e)

ParseLit(s, i, lit) ==
    IF i + Len(lit.s) - 1 <= Len(s) /\ SubSeq(s, i, i + Len(lit.s) - 1) = lit.s
    THEN Parsed(lit, i + Len(lit.s)) ELSE NoParse

\* json.loads, the value that starts at position i; the members of an
\* object from position i, acc being those already parsed
RECURSIVE ParseValue(_, _), ParseMembers(_, _, _)
ParseValue(s, i) ==
    CASE CharAt(s, i) = "\"" -> ParseChars(s, i + 1, <<>>)
      [] CharAt(s, i) = "-" ->
            LET p == ParseNat(s, i + 1) IN
            IF p.ok THEN Parsed(JNum(0 - p.v.n), p.next) ELSE NoParse
      [] CharAt(s, i) \in Digits -> ParseNat(s, i)
      [] CharAt(s, i) = "t" -> ParseLit(s, i, JTrue)
      [] CharAt(s, i) = "f" -> ParseLit(s, i, JFalse)
      [] CharAt(s, i) = "n" -> ParseLit(s, i, JNull)
      [] CharAt(s, i) = "{" ->
            IF CharAt(s, SkipWs(s, i + 1)) = "}"
            THEN Parsed(JObj(<<>>), SkipWs(s, i + 1) + 1)
            ELSE ParseMembers(s, SkipWs(s, i + 1), <<>>)
      [] OTHER -> NoParse
ParseMembers(s, i, acc) ==
    IF CharAt(s, i) # "\"" THEN NoParse
    ELSE LET k == ParseChars(s, i + 1, <<>>) IN
         IF ~k.ok \/ CharAt(s, SkipWs(s, k.next)) # ":" THEN NoParse
         ELSE LET v == ParseValue(s, SkipWs(s, SkipWs(s, k.next) + 1)) IN
              IF ~v.ok THEN NoParse
              ELSE LET j == SkipWs(s, v.next)
                       o == Append(acc, <<k.v.s, v.v>>)
                   IN
                   CASE CharAt(s, j) = "}" -> Parsed(JObj(o), j + 1)
                     [] CharAt(s, j) = "," -> ParseMembers(s, SkipWs(s, j + 1), o)
                     [] OTHER -> NoParse

\* json.loads(content): the whole text is one value
Loads(content) ==
    LET p == ParseValue(content, SkipWs(content, 1)) IN
    IF p.ok /\ SkipWs(content, p.next) = Len(content) + 1 THEN p ELSE NoParse

\* json.loads(content) does not raise
IsJson(content) == Loads(content).ok

\* len(content.encode("utf-8"))
RECURSIVE ByteLen(_)
ByteLen(s) ==
    IF s = <<>> THEN 0 ELSE (IF Head(s) = "é" THEN 2 ELSE 1) + ByteLen(Tail(s))

ContentLength == <<"Content-Length">>

\* write_message(msg): what it writes to the stream
write_message(msg) ==
    ContentLength \o <<":", " ">> \o NatChars(ByteLen(Dumps(msg)))
        \o <<"\r", "\n", "\r", "\n">> \o Dumps(msg)

\* keys and constants of JSON-RPC messages
KJsonrpc == <<"j", "s", "o", "n", "r", "p", "c">>
KId == <<"i", "d">>
KMethod == <<"m", "e", "t", "h", "o", "d">>
KParams == <<"p", "a", "r", "a", "m", "s">>
KResult == <<"r", "e", "s", "u", "l", "t">>
KError == <<"e", "r", "r", "o", "r">>
KCode == <<"c", "o", "d", "e">>
KMessage == <<"m", "e", "s", "s", "a", "g", "e">>
KSuccess == <<"s", "u", "c", "c", "e", "s", "s">>
Version == JStr(<<"2", ".", "0">>)

\* one message of each of the four shapes; their strings hold a
\* character outside ASCII, a quote, a backslash and a line end
RequestSample ==
    JObj(<< <<KJsonrpc, Version>>, <<KId, JNum(12)>>,
            <<KMethod, JStr(<<"u", "i", "/", "x">>)>>,
            <<KParams, JObj(<< <<KMessage, JStr(<<"é", "\"", "\\">>)>> >>)>> >>)
NotificationSample ==
    JObj(<< <<KJsonrpc, Version>>, <<KMethod, JStr(<<"n">>)>>, <<KParams, JObj(<<>>)>> >>)
SuccessSample ==
    JObj(<< <<KJsonrpc, Version>>, <<KId, JNum(7)>>,
            <<KResult, JObj(<< <<KSuccess, JTrue>> >>)>> >>)
ErrorSample ==
    JObj(<< <<KJsonrpc, Version>>, <<KId, JNum(8)>>,
            <<KError, JObj(<< <<KCode, JNum(0 - 32601)>>,
                              <<KMessage, JStr(<<"n", "o", "\n">>)>> >>)>> >>)
SampleMessages == {RequestSample, NotificationSample, SuccessSample, ErrorSample}

\* the reader between calls
ReaderIdle ==
    [in |-> <<>>, pc |-> "idle", line |-> <<>>, headers |-> <<>>,
     content_length |-> 0, result |-> "none", msg |-> JNull, out |-> <<>>,
     sent |-> <<>>]

\* what stdin is made of: blank lines, Content-Length headers (length
\* 0, length 2, not a number), another header, a line with no colon, a
\* header line cut short by the end of the stream, body text
Pieces ==
    { <<"\n">>,
      <<"\r", "\n">>,
      <<"Content-Length", ":", " ", "0", "\r", "\n">>,
      <<"Content-Length", ":", " ", "2", "\r", "\n">>,
      <<"Content-Length", ":", "x", "\n">>,
      <<"x", ":", "2", "\n">>,
      <<"x", "\n">>,
      <<"Content-Length", ":", "2">>,
      <<"2", "0">>,
      <<"x", "x">> }

RECURSIVE Concat(_)
Concat(ps) == IF ps = <<>> THEN <<>> ELSE Head(ps) \o Concat(Tail(ps))

Streams == {Concat(ps) : ps \in UNION {[1..n -> Pieces] : n \in 0..MaxPieces}}

\* a thread's locals: pc, the send_request call it is in (call), that
\* call's request_id (reqid), what the call returned or raised (ret), and
\* whether its Event.wait ran into the timeout (timedOut)
NoRet == Msg(NoId, "none", "none", "none", 0)
Raised(what) == Msg(NoId, what, "none", "none", 0)
Thread0(pc0) ==
    [pc |-> pc0, call |-> "none", reqid |-> NoId, ret |-> NoRet, timedOut |-> FALSE,
     after |-> "none", shutId |-> NoId]

\* History, read by the properties only:
\*   owed        ids whose Response was read from the stream while their
\*               send_request call was active (single-threaded variants)
\*   firstResp   id -> the first Response handle_response stored for it
\*   late        ids whose wait ended by timeout before any Response to
\*               them had been processed
\*   expired     ids whose entry was still an Event when send_request
\*               re-acquired the lock
\*   discarded   ids of expired calls for which handle_response has since
\*               dropped a Response
\*   firstResult the Interaction Result the first POST of the current
\*               invocation put in the slot
\*   acted       per worker, the outcome it carried out
\*   held        per worker, the window handle its invocation stored
\*   failed      the workers whose command had a send_request answered by
\*               an error Response or ended by TimeoutError
\*   mainErr     the exception that ended the main loop, if any
\*   asked       per id, the number of inbound Requests read with that id
\*               (the host consults it to give each Request an id of its own)
\*   invalid     window handles the host has reported closed, in a
\*               window/closed Notification the process has read
Hist0 ==
    [owed |-> {}, firstResp |-> <<>>, late |-> {}, expired |-> {}, discarded |-> {},
     firstResult |-> "None", acted |-> [w \in Workers |-> "none"], mainErr |-> "none",
     asked |-> [i \in HostReqIds |-> 0], invalid |-> {},
     held |-> [w \in Workers |-> 0], failed |-> {}, http |-> <<>>,
     waited |-> [w \in Workers |-> "none"]]

\* an inbound message with a method and an id
IsInboundRequest(msg) == msg.id # NoId /\ ~IsResponse(msg)

\* the history after the loop has read msg
Asked(h, msg) ==
    CASE IsInboundRequest(msg) -> [h EXCEPT !.asked[msg.id] = @ + 1]
      [] msg.id = NoId /\ msg.method = "window/closed" ->
            [h EXCEPT !.invalid = @ \cup {msg.arg}]
      [] OTHER -> h

\* a finished send_request call is dropped from the per-call history
Forget(h, id) ==
    [h EXCEPT !.firstResp = [k \in DOMAIN @ \ {id} |-> @[k]],
              !.late = @ \ {id}, !.expired = @ \ {id}, !.discarded = @ \ {id}]

\* the locals of a thread whose send_request call has been consumed
Consumed(t, where) ==
    [th EXCEPT ![t].pc = where, ![t].reqid = NoId, ![t].ret = NoRet,
               ![t].timedOut = FALSE, ![t].call = "none"]

(* ------------------------------ the host ------------------------------ *)

\* A Response of the host; a successful one names a window handle (read
\* only by the callers of ui/openWindow), here the handle of request i is i.
HostResponse(i, b) == Msg(i, "none", "none", b, IF b = "ok" THEN i ELSE 0)

\* What the host may write next: a Response to a Request it has received
\* (once or again), a stray Response, a Notification (window/closed names
\* the window whose handle the process holds), a Request, or end of stream.
HostMsgs ==
    {HostResponse(i, b) : i \in 1..(next_id - 1), b \in {"ok", "fail", "error"}}
    \cup {HostResponse(i, "ok") : i \in StrayIds}
    \cup {Msg(NoId, "command/execute", c, "none", 0) : c \in RegisteredCommands \cup {"bogus"}}
    \cup {Msg(i, "command/execute", KnownCommand, "none", 0) : i \in HostReqIds}
    \cup {Msg(NoId, "message/opened", "none", "none", 0)}
    \cup {Msg(NoId, "window/closed", "none", "none", h) : h \in {wizard_window_id} \ {0}}
    \cup {Request(i, m, 0) : i \in HostReqIds,
                              m \in {"initialize", "shutdown", "bogus/method"}}
    \cup {EndOfStream, BadFrame}

\* the host writes one frame (of at most `limit` in a run); the stream
\* carries one frame at a time
HostSend(limit) ==
    /\ th[Main].pc = "run"
    /\ inbox = <<>>
    /\ hostSent < limit
    /\ \E m \in HostMsgs :
          /\ (variant = "wizard" /\ m.id = NoId /\ m.command = KnownCommand)
                => started < Cardinality(Workers)
          /\ IsInboundRequest(m) => hist.asked[m.id] = 0
          /\ inbox' = <<m>>
    /\ hostSent' = hostSent + 1
    /\ UNCHANGED <<rd, variant, outbox, next_id, pending, stack, th, wizVars, hist>>

(* ------------------- single-threaded variants ------------------------- *)

\* the id counter left as it was
NextIdStuck(n) == n

\* _next_id += 1
NextId(n) == n + 1

\* What a router call asks of its caller: `write` the frames it returns or
\* writes itself, `call` the send_request its command handler enters
\* ("none": the handler returned), `replyTo` the id that handler will put
\* in its return value, `exit` sys.exit(0).
Routed(write, call, replyTo, exit) ==
    [write |-> write, call |-> call, replyTo |-> replyTo, exit |-> exit]

\* dialog-extension.py handle_command
handle_command_dialog(msg) ==
    IF msg.command # "dialog/loadPatient"
    THEN Routed(<<>>, "none", NoId, FALSE)
    ELSE Routed(<<>>, "ui/openFile", NoId, FALSE)

\* dialogs.py handle_command: each execute_* is one send_request
handle_command_dialogs(msg) ==
    CASE msg.command \in {"dialog-test/message-info", "dialog-test/message-warn",
                          "dialog-test/message-error"} ->
            Routed(<<>>, "ui/showMessage", NoId, FALSE)
      [] msg.command = "dialog-test/confirm" ->
            Routed(<<>>, "ui/showConfirm", NoId, FALSE)
      [] msg.command = "dialog-test/open-file" ->
            Routed(<<>>, "ui/openFile", NoId, FALSE)
      [] msg.command = "dialog-test/open-files" ->
            Routed(<<>>, "ui/openFiles", NoId, FALSE)
      [] msg.command = "dialog-test/save-file" ->
            Routed(<<>>, "ui/saveFile", NoId, FALSE)
      [] msg.command = "dialog-test/select-dir" ->
            Routed(<<>>, "ui/selectDirectory", NoId, FALSE)
      [] OTHER -> Routed(<<>>, "none", NoId, FALSE)

\* editor-ops.py handle_command: each execute_* is one send_request
handle_command_editor_ops(msg) ==
    CASE msg.command \in {"editor-test/get-hl7", "editor-test/get-json",
                          "editor-test/get-yaml", "editor-test/get-toml"} ->
            Routed(<<>>, "editor/getMessage", NoId, FALSE)
      [] msg.command = "editor-test/patch" ->
            Routed(<<>>, "editor/patchMessage", NoId, FALSE)
      [] msg.command = "editor-test/set" ->
            Routed(<<>>, "editor/setMessage", NoId, FALSE)
      [] OTHER -> Routed(<<>>, "none", NoId, FALSE)

\* a handler that knows no command
handle_command_unknown(msg) == Routed(<<>>, "none", NoId, FALSE)

\* handle_command of the variant that runs handle_message
handle_command(msg) ==
    CASE variant = "dialogs" -> handle_command_dialogs(msg)
      [] variant = "editor-ops" -> handle_command_editor_ops(msg)
      [] OTHER -> handle_command_dialog(msg)

\* dialog-extension.py, dialogs.py, editor-ops.py handle_message
handle_message(msg) ==
    IF msg.id = NoId
    THEN IF msg.method = "command/execute"
         THEN handle_command(msg)
         ELSE Routed(<<>>, "none", NoId, FALSE)
    ELSE CASE msg.method = "initialize" ->
                Routed(<<handle_initialize(msg.id)>>, "none", NoId, FALSE)
           [] msg.method = "shutdown" ->
                Routed(<<Response(msg.id, "ok")>>, "none", NoId, TRUE)
           [] OTHER ->
                Routed(<<ErrorResponse(msg.id, "e32601")>>, "none", NoId, FALSE)

\* minimal.py handle_command
handle_command_minimal(msg) ==
    IF msg.command = "minimal/setPatient"
    THEN Routed(<<>>, "editor/patchMessage", msg.id, FALSE)
    ELSE Routed(<<ErrorResponse(msg.id, "e32009")>>, "none", NoId, FALSE)

\* minimal.py handle_request
handle_request(msg) ==
    CASE msg.method = "initialize" ->
            Routed(<<handle_initialize(msg.id)>>, "none", NoId, FALSE)
      [] msg.method = "shutdown" ->
            Routed(<<Response(msg.id, "ok")>>, "none", NoId, TRUE)
      [] msg.method = "command/execute" -> handle_command_minimal(msg)
      [] OTHER ->
            Routed(<<ErrorResponse(msg.id, "e32601")>>, "none", NoId, FALSE)

Route(msg) == IF variant = "minimal" THEN handle_request(msg) ELSE handle_message(msg)

\* what reading the selected file gives execute_load_patient
FileOutcomes == {"unreadable", "nopatches", "patches"}

\* dialog-extension.py execute_load_patient, resumed with the Response to
\* the Request it was waiting for (`at` its method)
execute_load_patient(at, response, file) ==
    CASE at = "ui/openFile" ->
            IF response.body # "ok"
            THEN Routed(<<>>, "none", NoId, FALSE)
            ELSE IF file = "patches"
                 THEN Routed(<<>>, "editor/patchMessage", NoId, FALSE)
                 ELSE Routed(<<>>, "ui/showMessage", NoId, FALSE)
      [] at = "editor/patchMessage" -> Routed(<<>>, "ui/showMessage", NoId, FALSE)
      [] OTHER -> Routed(<<>>, "none", NoId, FALSE)

\* minimal.py handle_set_patient, resumed with the Response to its patch;
\* its return value is written by the loop that dispatched the command
handle_set_patient(replyTo, response) ==
    Routed(<<Response(replyTo, IF response.body = "ok" THEN "ok" ELSE "fail")>>,
           "none", NoId, FALSE)

\* dialogs.py, editor-ops.py execute_*: the Response is logged and the
\* handler returns
execute_test_command(response) == Routed(<<>>, "none", NoId, FALSE)

Resume(frame, response, file) ==
    CASE variant = "minimal" -> handle_set_patient(frame.replyTo, response)
      [] variant \in TestExtensions -> execute_test_command(response)
      [] OTHER -> execute_load_patient(frame.at, response, file)

\* a loop that writes what the router returned twice
ApplyTwice(r, stk) ==
    IF r.call # "none"
    THEN /\ stack' = Append(stk, [request_id |-> next_id, at |-> r.call,
                                  replyTo |-> r.replyTo])
         /\ next_id' = next_id + 1
         /\ outbox' = Append(outbox, Request(next_id, r.call, 0))
         /\ th' = th
    ELSE /\ stack' = stk
         /\ next_id' = next_id
         /\ outbox' = outbox \o r.write \o r.write
         /\ th' = IF r.exit THEN [th EXCEPT ![Main].pc = "exited"] ELSE th

\* The effect of a router or handler result r in the loop that runs above
\* the calls stk: a handler that enters send_request allocates the id,
\* writes the Request and becomes the stream's reader; otherwise the
\* frames are written and the loop reads on (or the process exits).
Apply(r, stk) ==
    IF r.call # "none"
    THEN /\ stack' = Append(stk, [request_id |-> next_id, at |-> r.call,
                                  replyTo |-> r.replyTo])
         /\ next_id' = NextId(next_id)
         /\ outbox' = Append(outbox, Request(next_id, r.call, 0))
         /\ th' = th
    ELSE /\ stack' = stk
         /\ next_id' = next_id
         /\ outbox' = outbox \o r.write
         /\ th' = IF r.exit THEN [th EXCEPT ![Main].pc = "exited"] ELSE th

\* main(): one iteration of the main loop (no send_request is active)
main_loop ==
    /\ variant \in Sequential
    /\ th[Main].pc = "run"
    /\ stack = <<>>
    /\ inbox # <<>>
    /\ inbox' = Tail(inbox)
    /\ LET msg == Head(inbox) IN
       IF LeavesLoop(msg)
       THEN /\ th' = [th EXCEPT ![Main].pc = "done"]
            /\ UNCHANGED <<stack, next_id, outbox>>
       ELSE Apply(Route(msg), stack)
    /\ hist' = IF Head(inbox) = BadFrame
               THEN [hist EXCEPT !.mainErr = "read_message"]
               ELSE Asked(hist, Head(inbox))
    /\ UNCHANGED <<rd, variant, hostSent, pending, wizVars>>

\* send_request: one iteration of the wait loop of the innermost call
send_request_loop ==
    /\ variant \in Sequential
    /\ th[Main].pc = "run"
    /\ stack # <<>>
    /\ inbox # <<>>
    /\ inbox' = Tail(inbox)
    /\ LET msg == Head(inbox)
           top == Last(stack)
       IN
       CASE LeavesLoop(msg) ->
               \* raise Exception("Connection closed"): no handler catches
               \* it, main() logs it and leaves its loop
               /\ th' = [th EXCEPT ![Main].pc = "done"]
               /\ stack' = <<>>
               /\ hist' = IF msg = BadFrame
                          THEN [hist EXCEPT !.mainErr = "send_request"]
                          ELSE hist
               /\ UNCHANGED <<next_id, outbox, pending>>
         [] ~LeavesLoop(msg) /\ IsResponse(msg) /\ msg.id = top.request_id ->
               \* return msg: the handler goes on with it
               /\ \E file \in FileOutcomes : Apply(Resume(top, msg, file), Front(stack))
               /\ UNCHANGED <<pending, hist>>
         [] ~LeavesLoop(msg) /\ IsResponse(msg) /\ msg.id # top.request_id ->
               \* response to a different request, store it
               /\ pending' = (msg.id :> msg) @@ pending
               /\ hist' = IF \E i \in 1..Len(stack) : stack[i].request_id = msg.id
                          THEN [hist EXCEPT !.owed = @ \cup {msg.id}]
                          ELSE hist
               /\ UNCHANGED <<stack, next_id, outbox, th>>
         [] OTHER ->
               /\ Apply(Route(msg), stack)
               /\ hist' = Asked(hist, msg)
               /\ UNCHANGED pending
    /\ UNCHANGED <<rd, variant, hostSent, wizVars>>

InitProcess ==
    /\ inbox = <<>>
    /\ outbox = <<>>
    /\ hostSent = 0
    /\ next_id = 1
    /\ pending = <<>>
    /\ stack = <<>>
    /\ evSet = {}
    /\ wizard_result = "None"
    /\ wizard_event = FALSE
    /\ wizard_window_id = 0
    /\ http_server = 0
    /\ listening = {}
    /\ hpc = "idle"
    /\ posts = 0
    /\ started = 0
    /\ hist = Hist0

InitCommon ==
    /\ InitProcess
    /\ rd = ReaderIdle

InitST ==
    /\ variant \in SingleThreaded
    /\ th = [t \in Threads |-> Thread0(IF t = Main THEN "run" ELSE "idle")]
    /\ InitCommon

ProgST == main_loop \/ send_request_loop

NextST ==
    \/ variant \in SingleThreaded /\ HostSend(MaxMsgsST)
    \/ main_loop
    \/ send_request_loop

SpecST == InitST /\ [][NextST]_vars

\* the process always gets to run; nothing obliges the host to write
FairSpecST == SpecST /\ WF_vars(ProgST)

(* ---------------------- read_message, step by step --------------------- *)

\* main(): msg = read_message(), again after each message
read_message_call ==
    /\ rd.pc = "returned"
    /\ rd.result # "None"
    /\ rd' = [rd EXCEPT !.pc = "readline", !.headers = <<>>, !.line = <<>>,
                        !.content_length = 0, !.result = "none", !.msg = JNull]
    /\ UNCHANGED procVars

\* line = sys.stdin.readline()
read_message_readline ==
    /\ rd.pc = "readline"
    /\ rd' = [rd EXCEPT !.line = readline(rd.in),
                        !.in = SubSeq(rd.in, Len(readline(rd.in)) + 1, Len(rd.in)),
                        !.pc = "header"]
    /\ UNCHANGED procVars

\* the rest of one pass of the header loop
read_message_header ==
    /\ rd.pc = "header"
    /\ rd' = CASE rd.line \in {<<"\r", "\n">>, <<"\n">>} ->
                    [rd EXCEPT !.pc = "length"]
              [] rd.line \notin {<<"\r", "\n">>, <<"\n">>} /\ HasColon(rd.line) ->
                    [rd EXCEPT !.pc = "readline",
                               !.headers = (HeaderKey(rd.line) :> HeaderValue(rd.line)) @@ @]
              [] OTHER -> [rd EXCEPT !.pc = "readline"]
    /\ UNCHANGED procVars

\* content_length = int(headers.get("Content-Length", 0)) and the test
\* for 0
read_message_length ==
    /\ rd.pc = "length"
    /\ rd' = IF ContentLength \notin DOMAIN rd.headers
             THEN [rd EXCEPT !.pc = "returned", !.result = "None"]
             ELSE IF ~IsInt(rd.headers[ContentLength])
             THEN [rd EXCEPT !.pc = "raised", !.result = "ValueError"]
             ELSE IF IntOf(rd.headers[ContentLength]) = 0
             THEN [rd EXCEPT !.pc = "returned", !.result = "None"]
             ELSE [rd EXCEPT !.pc = "content",
                             !.content_length = IntOf(rd.headers[ContentLength])]
    /\ UNCHANGED procVars

\* content = sys.stdin.read(content_length); return json.loads(content)
read_message_content ==
    /\ rd.pc = "content"
    /\ LET n == IF rd.content_length \in 0..Len(rd.in)
                THEN rd.content_length ELSE Len(rd.in)
           content == SubSeq(rd.in, 1, n)
       IN
       rd' = IF IsJson(content)
             THEN [rd EXCEPT !.pc = "returned", !.result = "msg",
                             !.msg = Loads(content).v,
                             !.in = SubSeq(rd.in, n + 1, Len(rd.in)),
                             !.out = Append(@, Loads(content).v)]
             ELSE [rd EXCEPT !.pc = "raised", !.result = "JSONDecodeError",
                             !.in = SubSeq(rd.in, n + 1, Len(rd.in))]
    /\ UNCHANGED procVars

InitRead ==
    /\ variant \in {"minimal", "wizard"}
    /\ th = [t \in Threads |-> Thread0("idle")]
    /\ InitProcess
    /\ \E s \in Streams : rd = [ReaderIdle EXCEPT !.in = s, !.pc = "readline"]

\* stdin holds what write_message wrote for one or more messages
InitCodec ==
    /\ variant = "dialog"
    /\ th = [t \in Threads |-> Thread0("idle")]
    /\ InitProcess
    /\ \E ms \in UNION {[1..n -> SampleMessages] : n \in 1..MaxFrames} :
          rd = [ReaderIdle EXCEPT !.in = Concat([k \in 1..Len(ms) |-> write_message(ms[k])]),
                                  !.sent = ms, !.pc = "readline"]

NextRead ==
    \/ read_message_call
    \/ read_message_readline
    \/ read_message_header
    \/ read_message_length
    \/ read_message_content

SpecRead == InitRead /\ [][NextRead]_vars

SpecCodec == InitCodec /\ [][NextRead]_vars

\* the process always gets to run
FairSpecRead == SpecRead /\ WF_vars(NextRead)

(* --------------------- frames written by the host ---------------------- *)

\* bodies the host may send: JSON text with its non-ASCII characters raw
\* (UTF-8, two bytes for "é"), as a serializer that does not escape writes
\* them
InboundBodies ==
    { <<"{", "\"", "a", "\"", ":", "\"", "e", "\"", "}">>,
      <<"{", "\"", "a", "\"", ":", "\"", "é", "\"", "}">>,
      <<"{", "\"", "a", "\"", ":", "\"", "é", "é", "\"", "}">> }

\* a frame as the protocol defines it: Content-Length is the number of
\* bytes of the body
InboundFrame(body) ==
    ContentLength \o <<":", " ">> \o NatChars(ByteLen(body))
        \o <<"\r", "\n", "\r", "\n">> \o body

\* stdin holds one or more frames of the host, and then ends
InitInbound ==
    /\ variant = "wizard"
    /\ th = [t \in Threads |-> Thread0("idle")]
    /\ InitProcess
    /\ \E bs \in UNION {[1..n -> InboundBodies] : n \in 1..MaxInbound} :
          rd = [ReaderIdle EXCEPT
                   !.in = Concat([k \in 1..Len(bs) |-> InboundFrame(bs[k])]),
                   !.sent = [k \in 1..Len(bs) |-> Loads(bs[k]).v],
                   !.pc = "readline"]

SpecInbound == InitInbound /\ [][NextRead]_vars

(* ----------------------------- windows.py ----------------------------- *)

\* the listener state of windows.py
Bridge == [http_server |-> http_server, listening |-> listening, started |-> started]

\* windows.py start_http_server: a new HTTPServer and its daemon thread
start_http_server_windows(b) ==
    [http_server |-> b.started + 1, listening |-> b.listening \cup {b.started + 1},
     started |-> b.started + 1]

\* windows.py stop_http_server
stop_http_server_windows(b) ==
    IF b.http_server # 0
    THEN [b EXCEPT !.listening = @ \ {b.http_server}, !.http_server = 0]
    ELSE b

\* What a router call of windows.py asks of its caller: as Routed, with
\* the handle the Request carries (arg), the command that sends it (cmd)
\* and the globals it leaves (bridge, window).
RoutedWindows(write, call, cmd, arg, exit, bridge, window) ==
    [write |-> write, call |-> call, cmd |-> cmd, arg |-> arg, exit |-> exit,
     bridge |-> bridge, window |-> window]

\* windows.py handle_command, up to the send_request of the command
handle_command_windows(msg) ==
    CASE msg.command \in {"window-test/open", "window-test/open-modal"} ->
            RoutedWindows(<<>>, "ui/openWindow", msg.command, 0, FALSE,
                IF http_server = 0 THEN start_http_server_windows(Bridge) ELSE Bridge,
                wizard_window_id)
      [] msg.command = "window-test/close" ->
            IF wizard_window_id = 0
            THEN RoutedWindows(<<>>, "none", "none", 0, FALSE, Bridge, wizard_window_id)
            ELSE RoutedWindows(<<>>, "ui/closeWindow", msg.command, wizard_window_id,
                               FALSE, Bridge, wizard_window_id)
      [] OTHER -> RoutedWindows(<<>>, "none", "none", 0, FALSE, Bridge, wizard_window_id)

\* windows.py handle_window_closed
handle_window_closed(msg) ==
    RoutedWindows(<<>>, "none", "none", 0, FALSE, Bridge,
        IF msg.arg = wizard_window_id THEN 0 ELSE wizard_window_id)

\* windows.py handle_message (handle_initialize starts a listener,
\* handle_shutdown stops the current one)
handle_message_windows(msg) ==
    IF msg.id = NoId
    THEN CASE msg.method = "command/execute" -> handle_command_windows(msg)
           [] msg.method = "window/closed" -> handle_window_closed(msg)
           [] OTHER -> RoutedWindows(<<>>, "none", "none", 0, FALSE, Bridge,
                                     wizard_window_id)
    ELSE CASE msg.method = "initialize" ->
                RoutedWindows(<<Response(msg.id, "ok")>>, "none", "none", 0, FALSE,
                              start_http_server_windows(Bridge), wizard_window_id)
           [] msg.method = "shutdown" ->
                RoutedWindows(<<Response(msg.id, "ok")>>, "none", "none", 0, TRUE,
                              stop_http_server_windows(Bridge), wizard_window_id)
           [] OTHER ->
                RoutedWindows(<<ErrorResponse(msg.id, "e32601")>>, "none", "none", 0,
                              FALSE, Bridge, wizard_window_id)

\* windows.py execute_open_window, execute_close_window and
\* execute_open_modal, resumed with the Response to their Request
execute_window_command(frame, response) ==
    RoutedWindows(<<>>, "none", "none", 0, FALSE, Bridge,
        CASE response.body = "error" -> wizard_window_id
          [] frame.cmd = "window-test/open" -> response.arg
          [] frame.cmd = "window-test/close" /\ response.body = "ok" -> 0
          [] OTHER -> wizard_window_id)

\* The effect of a router or handler result r of windows.py in the loop
\* that runs above the calls stk.
ApplyWindows(r, stk) ==
    /\ wizard_window_id' = r.window
    /\ http_server' = r.bridge.http_server
    /\ listening' = r.bridge.listening
    /\ started' = r.bridge.started
    /\ IF r.call # "none"
       THEN /\ stack' = Append(stk, [request_id |-> next_id, at |-> r.call,
                                     cmd |-> r.cmd, arg |-> r.arg])
            /\ next_id' = NextId(next_id)
            /\ outbox' = Append(outbox, Request(next_id, r.call, r.arg))
            /\ th' = th
       ELSE /\ stack' = stk
            /\ next_id' = next_id
            /\ outbox' = outbox \o r.write
            /\ th' = IF r.exit THEN [th EXCEPT ![Main].pc = "exited"] ELSE th

\* main() of windows.py has left its loop: stop_http_server(), "Exiting"
windows_exit ==
    /\ th' = [th EXCEPT ![Main].pc = "done"]
    /\ stack' = <<>>
    /\ http_server' = stop_http_server_windows(Bridge).http_server
    /\ listening' = stop_http_server_windows(Bridge).listening
    /\ UNCHANGED <<next_id, outbox, wizard_window_id, started>>

\* main() of windows.py: one iteration of the main loop
windows_main_loop ==
    /\ variant = "windows"
    /\ th[Main].pc = "run"
    /\ stack = <<>>
    /\ inbox # <<>>
    /\ inbox' = Tail(inbox)
    /\ LET msg == Head(inbox) IN
       IF LeavesLoop(msg)
       THEN windows_exit
       ELSE ApplyWindows(handle_message_windows(msg), stack)
    /\ hist' = Asked(hist, Head(inbox))
    /\ UNCHANGED <<rd, variant, hostSent, pending, evSet, wizard_result, wizard_event, hpc,
                   posts>>

\* send_request of windows.py: one iteration of the wait loop of the
\* innermost call
windows_send_request_loop ==
    /\ variant = "windows"
    /\ th[Main].pc = "run"
    /\ stack # <<>>
    /\ inbox # <<>>
    /\ inbox' = Tail(inbox)
    /\ LET msg == Head(inbox)
           top == Last(stack)
       IN
       CASE LeavesLoop(msg) ->
               \* raise Exception("Connection closed"): main() logs it and
               \* leaves its loop
               /\ windows_exit
               /\ UNCHANGED <<pending, hist>>
         [] ~LeavesLoop(msg) /\ IsResponse(msg) /\ msg.id = top.request_id ->
               \* return msg: the command goes on with it
               /\ ApplyWindows(execute_window_command(top, msg), Front(stack))
               /\ hist' = IF top.at = "ui/closeWindow" /\ msg.body = "ok"
                          THEN [hist EXCEPT !.invalid = @ \cup {top.arg}]
                          ELSE hist
               /\ UNCHANGED pending
         [] ~LeavesLoop(msg) /\ IsResponse(msg) /\ msg.id # top.request_id ->
               \* response to different request, store it
               /\ pending' = (msg.id :> msg) @@ pending
               /\ hist' = IF \E i \in 1..Len(stack) : stack[i].request_id = msg.id
                          THEN [hist EXCEPT !.owed = @ \cup {msg.id}]
                          ELSE hist
               /\ UNCHANGED <<stack, next_id, outbox, th, wizard_window_id, http_server,
                              listening, started>>
         [] OTHER ->
               /\ ApplyWindows(handle_message_windows(msg), stack)
               /\ hist' = Asked(hist, msg)
               /\ UNCHANGED pending
    /\ UNCHANGED <<rd, variant, hostSent, evSet, wizard_result, wizard_event, hpc, posts>>

InitWin ==
    /\ variant = "windows"
    /\ th = [t \in Threads |-> Thread0(IF t = Main THEN "run" ELSE "idle")]
    /\ InitCommon

NextWin ==
    \/ variant = "windows" /\ HostSend(MaxMsgsWin)
    \/ windows_main_loop
    \/ windows_send_request_loop

SpecWin == InitWin /\ [][NextWin]_vars

(* --------------------------- wizard variant --------------------------- *)

\* The sections of send_request and handle_response that run under
\* _message_lock are single steps; everything a thread does outside the
\* lock is one step per access to shared state.

\* threading.Event() stored in _pending
EventObj == Msg(NoId, "Event", "none", "none", 0)
IsEvent(x) == x.method = "Event"
IsRaised(x) == x.method \in {"TimeoutError", "AttributeError", "Request lost", "KeyError"}

Without(p, id) == [k \in DOMAIN p \ {id} |-> p[k]]

\* send_request: _pending[request_id] = threading.Event()
send_request_register(p, id) == (id :> EventObj) @@ p

\* handle_response without its membership test
handle_response_store_any(p, msg) == (msg.id :> msg) @@ p

\* a handle_response that takes the entry it answers out of the table
handle_response_store_pop(p, msg) == Without(p, msg.id)

\* handle_response: the table after the call
handle_response_store(p, msg) ==
    IF msg.id \in DOMAIN p THEN [p EXCEPT ![msg.id] = msg] ELSE p

\* handle_response: event.set() on what the table held
handle_response_raises(p, msg) == msg.id \in DOMAIN p /\ ~IsEvent(p[msg.id])

\* send_request after the wait: what it returns or raises
send_request_result(p, id) ==
    IF id \in DOMAIN p
    THEN IF IsEvent(p[id]) THEN Raised("TimeoutError") ELSE p[id]
    ELSE Raised("Request lost")

\* send_request after the wait: the table it leaves
send_request_pop(p, id) == IF id \in DOMAIN p THEN Without(p, id) ELSE p

\* wizard-extension.py handle_command
handle_command_wizard(msg) ==
    IF msg.command # "wizard/patientLookup"
    THEN Routed(<<>>, "none", NoId, FALSE)
    ELSE Routed(<<>>, "thread", NoId, FALSE)

\* wizard-extension.py handle_message; handle_shutdown tears the bridge
\* down before its Response is written
handle_message_wizard(msg) ==
    IF msg.id = NoId
    THEN IF msg.method = "command/execute"
         THEN handle_command_wizard(msg)
         ELSE Routed(<<>>, "none", NoId, FALSE)
    ELSE CASE msg.method = "initialize" ->
                Routed(<<handle_initialize(msg.id)>>, "none", NoId, FALSE)
           [] msg.method = "shutdown" ->
                Routed(<<>>, "handle_shutdown", msg.id, FALSE)
           [] OTHER ->
                Routed(<<ErrorResponse(msg.id, "e32601")>>, "none", NoId, FALSE)

At(t, where) == variant = "wizard" /\ th[t].pc = where
Goto(t, where) == [th EXCEPT ![t].pc = where]

\* main(): one iteration of the reader loop
wizard_main_loop ==
    /\ At(Main, "run")
    /\ inbox # <<>>
    /\ inbox' = Tail(inbox)
    /\ LET msg == Head(inbox)
           r == handle_message_wizard(msg)
       IN
       CASE LeavesLoop(msg) ->
               \* break: close_wizard_window(); stop_http_server()
               /\ th' = [th EXCEPT ![Main].pc = "close_chk", ![Main].after = "exit"]
               /\ UNCHANGED <<outbox, pending, evSet, started, hist>>
         [] ~LeavesLoop(msg) /\ IsResponse(msg) ->
               /\ pending' = handle_response_store(pending, msg)
               /\ IF handle_response_raises(pending, msg)
                  THEN \* AttributeError: caught by main(), which breaks
                       /\ th' = [th EXCEPT ![Main].pc = "close_chk",
                                           ![Main].after = "exit"]
                       /\ hist' = [hist EXCEPT !.mainErr = "handle_response"]
                       /\ UNCHANGED evSet
                  ELSE /\ evSet' = IF msg.id \in DOMAIN pending
                                   THEN evSet \cup {msg.id} ELSE evSet
                       /\ hist' = CASE msg.id \in DOMAIN pending ->
                                         [hist EXCEPT !.firstResp = (msg.id :> msg) @@ @]
                                    [] msg.id \in hist.expired ->
                                         [hist EXCEPT !.discarded = @ \cup {msg.id}]
                                    [] OTHER -> hist
                       /\ UNCHANGED th
               /\ UNCHANGED <<outbox, started>>
         [] OTHER ->
               /\ outbox' = outbox \o r.write
               /\ started' = IF r.call = "thread" THEN started + 1 ELSE started
               /\ th' = CASE r.call = "thread" ->
                               [th EXCEPT ![started + 1].pc = "reset_result"]
                          [] r.call = "handle_shutdown" ->
                               [th EXCEPT ![Main].pc = "close_chk",
                                          ![Main].after = "shutdown",
                                          ![Main].shutId = r.replyTo]
                          [] OTHER -> th
               /\ hist' = Asked(hist, msg)
               /\ UNCHANGED <<pending, evSet>>
    /\ UNCHANGED <<rd, variant, hostSent, next_id, stack, wizard_result, wizard_event,
                   wizard_window_id, http_server, listening, hpc, posts>>

\* execute_patient_lookup: wizard_result = None
reset_result(w) ==
    /\ At(w, "reset_result")
    /\ wizard_result' = "None"
    /\ th' = Goto(w, "reset_window")
    /\ UNCHANGED <<rd, variant, inbox, outbox, hostSent, next_id, pending, stack, evSet,
                   wizard_event, wizard_window_id, http_server, listening, hpc, posts,
                   started, hist>>

\* execute_patient_lookup: wizard_window_id = None
reset_window(w) ==
    /\ At(w, "reset_window")
    /\ wizard_window_id' = 0
    /\ th' = Goto(w, "reset_event")
    /\ UNCHANGED <<rd, variant, inbox, outbox, hostSent, next_id, pending, stack, evSet,
                   wizard_result, wizard_event, http_server, listening, hpc, posts,
                   started, hist>>

\* execute_patient_lookup: wizard_event.clear()
reset_event(w) ==
    /\ At(w, "reset_event")
    /\ wizard_event' = FALSE
    /\ hist' = [hist EXCEPT !.firstResult = "None", !.acted[w] = "none",
                             !.held[w] = 0, !.waited[w] = "none"]
    /\ th' = Goto(w, "start_http")
    /\ UNCHANGED <<rd, variant, inbox, outbox, hostSent, next_id, pending, stack, evSet,
                   wizard_result, wizard_window_id, http_server, listening, hpc, posts,
                   started>>

\* start_http_server; then execute_patient_lookup calls
\* send_request("ui/openWindow", ...)
start_http_server(w) ==
    /\ At(w, "start_http")
    /\ http_server' = w
    /\ listening' = listening \cup {w}
    /\ th' = [th EXCEPT ![w].pc = "sr_lock", ![w].call = "ui/openWindow"]
    /\ UNCHANGED <<rd, variant, inbox, outbox, hostSent, next_id, pending, stack, evSet,
                   wizard_result, wizard_event, wizard_window_id, hpc, posts, started,
                   hist>>

\* send_request, first locked section: allocate the id, register the
\* Event, write the Request
send_request_lock(t) ==
    /\ At(t, "sr_lock")
    /\ next_id' = NextId(next_id)
    /\ pending' = send_request_register(pending, next_id)
    /\ outbox' = Append(outbox, Request(next_id, th[t].call,
                            IF th[t].call = "ui/closeWindow" THEN wizard_window_id ELSE 0))
    /\ th' = [th EXCEPT ![t].pc = "sr_deref", ![t].reqid = next_id,
                        ![t].ret = NoRet, ![t].timedOut = FALSE]
    /\ UNCHANGED <<rd, variant, inbox, hostSent, stack, wizVars, hist>>

\* send_request: _pending[request_id] is evaluated, without the lock, to
\* call .wait on it; a stored Response (a dict) has no wait
send_request_deref(t) ==
    /\ At(t, "sr_deref")
    /\ th' = IF IsEvent(pending[th[t].reqid])
             THEN Goto(t, "sr_wait")
             ELSE [th EXCEPT ![t].pc = "ret", ![t].ret = Raised("AttributeError")]
    /\ UNCHANGED <<rd, variant, inbox, outbox, hostSent, next_id, pending, stack, wizVars,
                   hist>>

\* a wait that reads the stream for its own Response, as the
\* single-threaded send_request does
send_request_wait_read(t) ==
    /\ At(t, "sr_wait")
    /\ inbox # <<>>
    /\ IsResponse(Head(inbox))
    /\ Head(inbox).id = th[t].reqid
    /\ inbox' = Tail(inbox)
    /\ pending' = handle_response_store(pending, Head(inbox))
    /\ th' = Goto(t, "sr_collect")
    /\ UNCHANGED <<rd, variant, outbox, hostSent, next_id, stack, wizVars, hist>>

\* Event.wait(timeout=30) returns because the Event was set
send_request_wait_set(t) ==
    /\ At(t, "sr_wait")
    /\ th[t].reqid \in evSet
    /\ th' = Goto(t, "sr_collect")
    /\ UNCHANGED <<rd, variant, inbox, outbox, hostSent, next_id, pending, stack, wizVars,
                   hist>>

\* Event.wait(timeout=30) returns because 30 s have passed
send_request_wait_timeout(t) ==
    /\ At(t, "sr_wait")
    /\ th[t].reqid \notin evSet
    /\ th' = [th EXCEPT ![t].pc = "sr_collect", ![t].timedOut = TRUE]
    /\ hist' = [hist EXCEPT !.late = @ \cup {th[t].reqid}]
    /\ UNCHANGED <<rd, variant, inbox, outbox, hostSent, next_id, pending, stack, wizVars>>

\* send_request, second locked section: pop the entry; return it or raise
send_request_collect(t) ==
    /\ At(t, "sr_collect")
    /\ pending' = send_request_pop(pending, th[t].reqid)
    /\ th' = [th EXCEPT ![t].pc = "ret",
                        ![t].ret = send_request_result(pending, th[t].reqid)]
    /\ hist' = IF send_request_result(pending, th[t].reqid) = Raised("TimeoutError")
               THEN [hist EXCEPT !.expired = @ \cup {th[t].reqid}]
               ELSE hist
    /\ evSet' = evSet \ {th[t].reqid}
    /\ UNCHANGED <<rd, variant, inbox, outbox, hostSent, next_id, stack, wizard_result,
                   wizard_event, wizard_window_id, http_server, listening, hpc, posts,
                   started>>

\* what send_request gave is a failed request: an error Response, or the
\* timeout
RequestFailed(ret) == ret.body = "error" \/ ret = Raised("TimeoutError")

\* execute_patient_lookup after send_request("ui/openWindow"): an exception
\* or an error Response leads to the finally block, else the handle is kept
after_open(w) ==
    /\ At(w, "ret")
    /\ th[w].call = "ui/openWindow"
    /\ IF IsRaised(th[w].ret) \/ th[w].ret.body = "error"
       THEN /\ th' = Consumed(w, "close_chk")
            /\ hist' = IF RequestFailed(th[w].ret)
                       THEN [Forget(hist, th[w].reqid) EXCEPT !.failed = @ \cup {w}]
                       ELSE Forget(hist, th[w].reqid)
            /\ UNCHANGED wizard_window_id
       ELSE /\ wizard_window_id' = th[w].ret.arg
            /\ th' = Consumed(w, "ui_wait")
            /\ hist' = [Forget(hist, th[w].reqid) EXCEPT !.held[w] = th[w].ret.arg]
    /\ UNCHANGED <<rd, variant, inbox, outbox, hostSent, next_id, pending, stack, evSet,
                   wizard_result, wizard_event, http_server, listening, hpc, posts,
                   started>>

\* wizard_event.wait(timeout=300) returns because the event is set
ui_wait_set(w) ==
    /\ At(w, "ui_wait")
    /\ wizard_event
    /\ th' = Goto(w, "chk_none")
    /\ hist' = [hist EXCEPT !.waited[w] = "set"]
    /\ UNCHANGED <<rd, variant, inbox, outbox, hostSent, next_id, pending, stack, wizVars>>

\* wizard_event.wait(timeout=300) returns because 300 s have passed
ui_wait_timeout(w) ==
    /\ At(w, "ui_wait")
    /\ ~wizard_event
    /\ th' = Goto(w, "chk_none")
    /\ hist' = [hist EXCEPT !.waited[w] = "timeout"]
    /\ UNCHANGED <<rd, variant, inbox, outbox, hostSent, next_id, pending, stack, wizVars>>

\* if wizard_result is None: "Wizard timed out"
chk_none(w) ==
    /\ At(w, "chk_none")
    /\ IF wizard_result = "None"
       THEN /\ th' = Goto(w, "close_chk")
            /\ hist' = [hist EXCEPT !.acted[w] = "timeout"]
       ELSE /\ th' = Goto(w, "chk_cancel")
            /\ UNCHANGED hist
    /\ UNCHANGED <<rd, variant, inbox, outbox, hostSent, next_id, pending, stack, wizVars>>

\* if wizard_result.get("action") == "cancel": "Wizard cancelled"
\* (None has no get: the exception leads to the finally block)
chk_cancel(w) ==
    /\ At(w, "chk_cancel")
    /\ CASE wizard_result = "cancel" ->
               /\ th' = Goto(w, "close_chk")
               /\ hist' = [hist EXCEPT !.acted[w] = "cancel"]
         [] wizard_result = "None" ->
               /\ th' = Goto(w, "close_chk")
               /\ UNCHANGED hist
         [] OTHER ->
               /\ th' = Goto(w, "chk_apply")
               /\ UNCHANGED hist
    /\ UNCHANGED <<rd, variant, inbox, outbox, hostSent, next_id, pending, stack, wizVars>>

\* if wizard_result.get("action") == "apply"
chk_apply(w) ==
    /\ At(w, "chk_apply")
    /\ th' = IF wizard_result = "apply" THEN Goto(w, "get_patient")
                                        ELSE Goto(w, "close_chk")
    /\ UNCHANGED <<rd, variant, inbox, outbox, hostSent, next_id, pending, stack, wizVars,
                   hist>>

\* patient = wizard_result["patient"], then
\* send_request("editor/patchMessage", ...); a result without a patient
\* raises and leads to the finally block
get_patient(w) ==
    /\ At(w, "get_patient")
    /\ IF wizard_result = "apply"
       THEN /\ th' = [th EXCEPT ![w].pc = "sr_lock", ![w].call = "editor/patchMessage"]
            /\ hist' = [hist EXCEPT !.acted[w] = "apply"]
       ELSE /\ th' = Goto(w, "close_chk")
            /\ UNCHANGED hist
    /\ UNCHANGED <<rd, variant, inbox, outbox, hostSent, next_id, pending, stack, wizVars>>

\* execute_patient_lookup after send_request("editor/patchMessage"): every
\* outcome ends in the finally block
after_patch(w) ==
    /\ At(w, "ret")
    /\ th[w].call = "editor/patchMessage"
    /\ th' = Consumed(w, "close_chk")
    /\ hist' = IF RequestFailed(th[w].ret)
               THEN [Forget(hist, th[w].reqid) EXCEPT !.failed = @ \cup {w}]
               ELSE Forget(hist, th[w].reqid)
    /\ UNCHANGED <<rd, variant, inbox, outbox, hostSent, next_id, pending, stack, wizVars>>

\* close_wizard_window: if wizard_window_id: send_request("ui/closeWindow")
close_wizard_window(t) ==
    /\ At(t, "close_chk")
    /\ th' = IF wizard_window_id # 0
             THEN [th EXCEPT ![t].pc = "sr_lock", ![t].call = "ui/closeWindow"]
             ELSE Goto(t, "stop_chk")
    /\ UNCHANGED <<rd, variant, inbox, outbox, hostSent, next_id, pending, stack, wizVars,
                   hist>>

\* close_wizard_window after send_request returned or raised (the
\* exception is logged): wizard_window_id = None
after_close(t) ==
    /\ At(t, "ret")
    /\ th[t].call = "ui/closeWindow"
    /\ wizard_window_id' = 0
    /\ th' = Consumed(t, "stop_chk")
    /\ hist' = Forget(hist, th[t].reqid)
    /\ UNCHANGED <<rd, variant, inbox, outbox, hostSent, next_id, pending, stack, evSet,
                   wizard_result, wizard_event, http_server, listening, hpc, posts,
                   started>>

\* where a thread goes when its teardown is over
TeardownDone(t) ==
    IF t = Main /\ th[t].after = "shutdown" THEN Goto(t, "reply") ELSE Goto(t, "done")

\* stop_http_server: if http_server:
stop_http_server(t) ==
    /\ At(t, "stop_chk")
    /\ th' = IF http_server # 0 THEN Goto(t, "stop_shutdown") ELSE TeardownDone(t)
    /\ UNCHANGED <<rd, variant, inbox, outbox, hostSent, next_id, pending, stack, wizVars,
                   hist>>

\* stop_http_server: http_server.shutdown(); None has no shutdown, the
\* exception leaves handle_shutdown for main()'s handler, or ends the thread
stop_http_server_shutdown(t) ==
    /\ At(t, "stop_shutdown")
    /\ IF http_server # 0
       THEN /\ listening' = listening \ {http_server}
            /\ th' = Goto(t, "stop_clear")
            /\ UNCHANGED hist
       ELSE /\ UNCHANGED listening
            /\ IF t = Main /\ th[t].after = "shutdown"
               THEN /\ th' = [th EXCEPT ![t].pc = "close_chk", ![t].after = "exit"]
                    /\ hist' = [hist EXCEPT !.mainErr = "stop_http_server"]
               ELSE /\ th' = Goto(t, "dead")
                    /\ UNCHANGED hist
    /\ UNCHANGED <<rd, variant, inbox, outbox, hostSent, next_id, pending, stack, evSet,
                   wizard_result, wizard_event, wizard_window_id, http_server, hpc,
                   posts, started>>

\* stop_http_server: http_server = None
stop_http_server_clear(t) ==
    /\ At(t, "stop_clear")
    /\ http_server' = 0
    /\ th' = TeardownDone(t)
    /\ UNCHANGED <<rd, variant, inbox, outbox, hostSent, next_id, pending, stack, evSet,
                   wizard_result, wizard_event, wizard_window_id, listening, hpc,
                   posts, started, hist>>

\* handle_message, shutdown: write_message(response); sys.exit(0)
shutdown_reply ==
    /\ At(Main, "reply")
    /\ outbox' = Append(outbox, Response(th[Main].shutId, "ok"))
    /\ th' = Goto(Main, "exited")
    /\ UNCHANGED <<rd, variant, inbox, hostSent, next_id, pending, stack, wizVars, hist>>

\* WizardHandler.do_POST, /api/apply with a known MRN or /api/cancel:
\* wizard_result = {...}
do_POST_assign(action, limit) ==
    /\ variant = "wizard"
    /\ listening # {}
    /\ hpc = "idle"
    /\ posts < limit
    /\ posts' = posts + 1
    /\ wizard_result' = action
    /\ hpc' = action
    /\ hist' = IF hist.firstResult = "None"
               THEN [hist EXCEPT !.firstResult = action] ELSE hist
    /\ UNCHANGED <<rd, variant, inbox, outbox, hostSent, next_id, pending, stack, th, evSet,
                   wizard_event, wizard_window_id, http_server, listening, started>>

\* WizardHandler.do_POST, /api/apply and /api/cancel: wizard_event.set(),
\* then the reply
do_POST_signal ==
    /\ variant = "wizard"
    /\ hpc # "idle"
    /\ wizard_event' = TRUE
    /\ hpc' = "idle"
    /\ UNCHANGED <<rd, variant, inbox, outbox, hostSent, next_id, pending, stack, th, evSet,
                   wizard_result, wizard_window_id, http_server, listening, posts,
                   started, hist>>

\* WizardHandler.do_POST, /api/search, or /api/apply with an MRN that is
\* not in PATIENTS: a reply and nothing else
do_POST_reply ==
    /\ variant = "wizard"
    /\ listening # {}
    /\ hpc = "idle"
    /\ UNCHANGED vars

InitWiz ==
    /\ variant = "wizard"
    /\ th = [t \in Threads |-> Thread0(IF t = Main THEN "run" ELSE "idle")]
    /\ InitCommon

\* the steps of the worker threads
WorkerStep ==
    \E w \in Workers :
        \/ reset_result(w) \/ reset_window(w) \/ reset_event(w) \/ start_http_server(w)
        \/ after_open(w) \/ ui_wait_set(w) \/ ui_wait_timeout(w)
        \/ chk_none(w) \/ chk_cancel(w) \/ chk_apply(w) \/ get_patient(w)
        \/ after_patch(w)

\* send_request and the teardown, run by the workers and by the main thread
SharedStep ==
    \E t \in Threads :
        \/ send_request_lock(t) \/ send_request_deref(t)
        \/ send_request_wait_set(t) \/ send_request_wait_timeout(t)
        \/ send_request_collect(t)
        \/ close_wizard_window(t) \/ after_close(t)
        \/ stop_http_server(t) \/ stop_http_server_shutdown(t)
        \/ stop_http_server_clear(t)

HttpStep(limit) ==
    \/ \E action \in {"apply", "cancel"} : do_POST_assign(action, limit)
    \/ do_POST_signal
    \/ do_POST_reply

ProgWiz == wizard_main_loop \/ shutdown_reply \/ WorkerStep \/ SharedStep

NextWiz ==
    \/ variant = "wizard" /\ HostSend(MaxMsgs)
    \/ ProgWiz
    \/ HttpStep(MaxPosts)

SpecWiz == InitWiz /\ [][NextWiz]_vars

\* the wizard in short runs
NextWizShort ==
    \/ variant = "wizard" /\ HostSend(ShortMsgs)
    \/ ProgWiz
    \/ HttpStep(ShortPosts)

SpecWizShort == InitWiz /\ [][NextWizShort]_vars

\* every thread that can take a step eventually takes one: the waits of
\* send_request (30 s) and of execute_patient_lookup (300 s) end
FairSpecWizShort == SpecWizShort /\ WF_vars(ProgWiz)

(* ------------------ write_message, one write at a time ------------------ *)
(* write_message makes two calls of sys.stdout.write, the header and the  *)
(* content.  Here stdout is the sequence of these writes; send_request    *)
(* makes them inside `with _message_lock`, the main loop without it.      *)

\* one sys.stdout.write of write_message
Chunk(frame, part) == [frame |-> frame, part |-> part]

\* a thread is inside the first locked section of send_request
LockHeld ==
    \E u \in Threads : th[u].pc \in {"wm_header", "wm_content"} /\ th[u].call # "none"

\* the frame the main loop reads makes handle_message return a Response
WritesReply ==
    /\ inbox # <<>>
    /\ ~LeavesLoop(Head(inbox))
    /\ ~IsResponse(Head(inbox))
    /\ handle_message_wizard(Head(inbox)).write # <<>>

\* main(): response = handle_message(msg); if response: write_message(response)
wizard_main_loop_reply ==
    /\ At(Main, "run")
    /\ WritesReply
    /\ inbox' = Tail(inbox)
    /\ th' = [th EXCEPT ![Main].pc = "wm_header",
                        ![Main].ret = handle_message_wizard(Head(inbox)).write[1]]
    /\ hist' = Asked(hist, Head(inbox))
    /\ UNCHANGED <<rd, variant, outbox, hostSent, next_id, pending, stack, wizVars>>

\* main(): the iterations that write nothing; handle_response takes
\* _message_lock
wizard_main_loop_silent ==
    /\ ~WritesReply
    /\ inbox # <<>>
    /\ IsResponse(Head(inbox)) => ~LockHeld
    /\ wizard_main_loop

\* send_request: with _message_lock: the id and the Event, up to
\* write_message
send_request_acquire(t) ==
    /\ At(t, "sr_lock")
    /\ ~LockHeld
    /\ next_id' = NextId(next_id)
    /\ pending' = send_request_register(pending, next_id)
    /\ th' = [th EXCEPT ![t].pc = "wm_header", ![t].reqid = next_id,
                        ![t].timedOut = FALSE,
                        ![t].ret = Request(next_id, th[t].call,
                                     IF th[t].call = "ui/closeWindow"
                                     THEN wizard_window_id ELSE 0)]
    /\ UNCHANGED <<rd, variant, inbox, outbox, hostSent, stack, wizVars, hist>>

\* write_message: sys.stdout.write(f"Content-Length: ...\r\n\r\n")
write_message_header(t) ==
    /\ At(t, "wm_header")
    /\ outbox' = Append(outbox, Chunk(th[t].ret, "header"))
    /\ th' = Goto(t, "wm_content")
    /\ UNCHANGED <<rd, variant, inbox, hostSent, next_id, pending, stack, wizVars, hist>>

\* write_message: sys.stdout.write(content) and the flush; the main loop
\* reads on, send_request leaves the locked section
write_message_content(t) ==
    /\ At(t, "wm_content")
    /\ outbox' = Append(outbox, Chunk(th[t].ret, "content"))
    /\ th' = [th EXCEPT ![t].pc = IF th[t].call = "none" THEN "run" ELSE "sr_deref",
                        ![t].ret = NoRet]
    /\ UNCHANGED <<rd, variant, inbox, hostSent, next_id, pending, stack, wizVars, hist>>

\* the host, which here sends no shutdown
HostSendNoShutdown(limit) ==
    /\ variant = "wizard"
    /\ HostSend(limit)
    /\ inbox'[1].method # "shutdown"

\* send_request and the teardown, with the writes of send_request apart
SharedStepWrites ==
    \E t \in Threads :
        \/ send_request_acquire(t) \/ write_message_header(t)
        \/ write_message_content(t) \/ send_request_deref(t)
        \/ send_request_wait_set(t) \/ send_request_wait_timeout(t)
        \/ send_request_collect(t)
        \/ close_wizard_window(t) \/ after_close(t)
        \/ stop_http_server(t) \/ stop_http_server_shutdown(t)
        \/ stop_http_server_clear(t)

NextWrites ==
    \/ HostSendNoShutdown(MaxMsgsWrites)
    \/ wizard_main_loop_reply
    \/ wizard_main_loop_silent
    \/ WorkerStep
    \/ SharedStepWrites
    \/ HttpStep(ShortPosts)

SpecWrites == InitWiz /\ [][NextWrites]_vars

(* ------------------ WizardHandler.do_POST, run alone ------------------- *)
(* One POST handled from its first statement to its last with no other    *)
(* thread in between, the request drawn from the paths and bodies below.  *)

\* the keys of PATIENTS
PATIENTS ==
    {<<"1", "2", "3", "4", "5", "6", "7", "8">>,
     <<"8", "7", "6", "5", "4", "3", "2", "1">>,
     <<"1", "1", "1", "1", "2", "2", "2", "2">>}

KMrn == <<"m", "r", "n">>
KQuery == <<"q", "u", "e", "r", "y">>

\* bodies a client may post: none, text that is not JSON, JSON that is
\* not an object, and the objects the page sends
BodyMalformed == <<"{", "b", "a", "d">>
PostBodies ==
    {<<>>, BodyMalformed, <<"7">>,
     Dumps(JObj(<< <<KQuery, JStr(<<"D", "O", "E">>)>> >>)),
     Dumps(JObj(<< <<KMrn, JStr(<<"1", "2", "3", "4", "5", "6", "7", "8">>)>> >>)),
     Dumps(JObj(<< <<KMrn, JStr(<<"0">>)>> >>))}

PostPaths == {"/api/search", "/api/apply", "/api/cancel", "/favicon.ico"}

\* dict.get(key, default) on a parsed object
RECURSIVE Get(_, _, _)
Get(o, key, default) ==
    IF o = <<>> THEN default
    ELSE IF Last(o)[1] = key THEN Last(o)[2] ELSE Get(Front(o), key, default)

\* data = json.loads(body) if body else {}, then data.get: whether the
\* two statements raise (JSONDecodeError, or AttributeError on a value
\* that is no object)
PostDataRaises(body) ==
    body # <<>> /\ (~IsJson(body) \/ Loads(body).v.t # "obj")

PostData(body) == IF body = <<>> THEN <<>> ELSE Loads(body).v.o

\* a handler that takes every /api/apply as an apply
do_POST_handle_any_mrn(path, body) ==
    CASE path \in {"/api/search", "/api/apply"} /\ PostDataRaises(body) ->
            [reply |-> "none", result |-> "unchanged", set |-> FALSE]
      [] path = "/api/search" ->
            [reply |-> "patients", result |-> "unchanged", set |-> FALSE]
      [] path \in {"/api/apply"} ->
            [reply |-> "success", result |-> "apply", set |-> TRUE]
      [] path = "/api/cancel" ->
            [reply |-> "success", result |-> "cancel", set |-> TRUE]
      [] OTHER -> [reply |-> "404", result |-> "unchanged", set |-> FALSE]

\* WizardHandler.do_POST: the reply the client gets ("patients", "success"
\* and "failure" are the JSON payloads of send_json, "404" is send_error,
\* "none" is a connection closed without a response: the exception leaves
\* the handler and socketserver logs it and closes the request), the value
\* assigned to wizard_result, and whether wizard_event is set
do_POST_handle(path, body) ==
    CASE path \in {"/api/search", "/api/apply"} /\ PostDataRaises(body) ->
            [reply |-> "none", result |-> "unchanged", set |-> FALSE]
      [] path = "/api/search" ->
            [reply |-> "patients", result |-> "unchanged", set |-> FALSE]
      [] path = "/api/apply" ->
            IF Get(PostData(body), KMrn, JStr(<<>>)) \in {JStr(m) : m \in PATIENTS}
            THEN [reply |-> "success", result |-> "apply", set |-> TRUE]
            ELSE [reply |-> "failure", result |-> "unchanged", set |-> FALSE]
      [] path = "/api/cancel" ->
            [reply |-> "success", result |-> "cancel", set |-> TRUE]
      [] OTHER -> [reply |-> "404", result |-> "unchanged", set |-> FALSE]

\* one POST served by the listener
do_POST(limit) ==
    /\ variant = "wizard"
    /\ listening # {}
    /\ hpc = "idle"
    /\ posts < limit
    /\ posts' = posts + 1
    /\ \E path \in PostPaths, body \in PostBodies :
          LET h == do_POST_handle(path, body) IN
          /\ wizard_result' = IF h.result = "unchanged" THEN wizard_result ELSE h.result
          /\ wizard_event' = (wizard_event \/ h.set)
          /\ hist' = [hist EXCEPT
                         !.http = Append(@, [path |-> path, body |-> body,
                                             reply |-> h.reply]),
                         !.firstResult = IF @ = "None" /\ h.result # "unchanged"
                                         THEN h.result ELSE @]
    /\ UNCHANGED <<rd, variant, inbox, outbox, hostSent, next_id, pending, stack, th, evSet,
                   wizard_window_id, http_server, listening, hpc, started>>

\* the wizard's window is open: the first worker has started the listener,
\* got its window handle and waits for the browser
InitHttp ==
    /\ variant = "wizard"
    /\ th = [t \in Threads |->
                Thread0(CASE t = Main -> "run" [] t = 1 -> "ui_wait" [] OTHER -> "idle")]
    /\ inbox = <<>>
    /\ outbox = <<Request(1, "ui/openWindow", 0)>>
    /\ hostSent = 2
    /\ next_id = 2
    /\ pending = <<>>
    /\ stack = <<>>
    /\ evSet = {}
    /\ wizard_result = "None"
    /\ wizard_event = FALSE
    /\ wizard_window_id = 1
    /\ http_server = 1
    /\ listening = {1}
    /\ hpc = "idle"
    /\ posts = 0
    /\ started = 1
    /\ hist = [Hist0 EXCEPT !.held[1] = 1]
    /\ rd = ReaderIdle

NextHttp == do_POST(MaxHttpPosts)

SpecHttp == InitHttp /\ [][NextHttp]_vars

(* ---------------------------- all variants ---------------------------- *)

Init == InitST \/ InitWiz

Next == NextST \/ NextWizShort

Spec == Init /\ [][Next]_vars

\* the examples and the test extensions dialogs.py and editor-ops.py
InitCaps ==
    \/ Init
    \/ /\ variant \in TestExtensions
       /\ th = [t \in Threads |-> Thread0(IF t = Main THEN "run" ELSE "idle")]
       /\ InitCommon

NextCaps ==
    \/ variant \in Sequential /\ HostSend(MaxMsgsCaps)
    \/ main_loop
    \/ send_request_loop
    \/ NextWizShort

SpecCaps == InitCaps /\ [][NextCaps]_vars

(* ------------------------------ properties ---------------------------- *)

IsRequestFrame(f) == f.method # "none" /\ f.body = "none"

\* the reader takes the frame m off the stream in this step
Reads(m) == inbox # <<>> /\ Head(inbox) = m /\ inbox' = Tail(inbox)

\* C1: in the single-threaded variants every Response read from the
\* stream reaches the send_request call whose id it carries: the call that
\* is reading the stream is never one whose own Response has already been
\* read (by an inner call) and not returned to it.
C1_ResponseReachesItsCall ==
    (variant \in SingleThreaded /\ th[Main].pc = "run" /\ stack # <<>>)
        => Last(stack).request_id \notin hist.owed

\* C2: in the wizard, a send_request whose Response was processed by
\* handle_response before the wait ran into its timeout returns exactly
\* that Response and does not raise.
C2_ResponseInTimeIsReturned ==
    \A t \in Threads :
        (variant = "wizard" /\ th[t].pc = "ret"
            /\ th[t].reqid \in DOMAIN hist.firstResp /\ th[t].reqid \notin hist.late)
        => th[t].ret = hist.firstResp[th[t].reqid]

\* C3: the ids of the Requests written are strictly increasing in the
\* order written (hence unique), in every variant.
C3_RequestIdsStrictlyIncreasing ==
    \A i, j \in 1..Len(outbox) :
        (i < j /\ IsRequestFrame(outbox[i]) /\ IsRequestFrame(outbox[j]))
        => outbox[i].id < outbox[j].id

\* C3 witness: two threads are inside send_request at the same time
C3_Witness ==
    /\ variant = "wizard"
    /\ \E s, t \in Threads :
          /\ th[s].pc = "sr_wait" /\ th[t].pc = "sr_wait"
          /\ th[s].reqid < th[t].reqid

\* C4: a duplicate Response is a no-op: handle_response does not raise (the
\* main loop keeps running) and the waiter receives the first Response.
C4_DuplicateResponseIsNoOp ==
    /\ hist.mainErr # "handle_response"
    /\ \A t \in Threads :
          (th[t].pc = "ret" /\ th[t].reqid \in DOMAIN hist.firstResp
              /\ ~IsRaised(th[t].ret))
          => th[t].ret = hist.firstResp[th[t].reqid]

TimeoutRemovesEntry ==
    \A t \in Threads :
        (variant = "wizard" /\ th[t].pc = "ret"
            /\ th[t].reqid \notin DOMAIN hist.firstResp)
        => /\ th[t].ret = Raised("TimeoutError")
           /\ th[t].reqid \notin DOMAIN pending

\* a Response whose id has no entry changes neither _pending, nor an
\* Event, nor any thread, and nothing is written
LateResponseDiscarded ==
    \A m \in HostMsgs :
        (variant = "wizard" /\ IsResponse(m) /\ m.id \notin DOMAIN pending /\ Reads(m))
        => UNCHANGED <<pending, evSet, th, outbox, next_id>>

C6_WaitEnds ==
    (variant \in SingleThreaded /\ th[Main].pc = "run" /\ stack # <<>>)
        ~> (th[Main].pc # "run" \/ stack = <<>>)

\* C7: the outcome a worker carries out (apply or cancel) is that of the
\* first POST that filled the result slot in its invocation.
C7_WorkerActsOnFirstResult ==
    \A w \in Workers :
        hist.acted[w] \in {"apply", "cancel"} => hist.acted[w] = hist.firstResult

\* C8: once wizard_event is set, a POST to /api/apply or /api/cancel
\* leaves wizard_result unchanged.
C8_SignalledResultIsKept ==
    [][(wizard_event /\ hpc = "idle" /\ hpc' # "idle")
          => wizard_result' = wizard_result]_vars

\* C9: no Response frame is written for a message without an id: every
\* Response the process writes carries an id.
C9_NoResponseToNotification ==
    \A i \in 1..Len(outbox) : IsResponse(outbox[i]) => outbox[i].id # NoId

\* C10: reading a command/execute Notification with an unregistered
\* command writes no frame, consumes no id, starts no thread or listener
\* and leaves the reader in its loop.
C10_UnknownCommandIgnored ==
    [][Reads(Msg(NoId, "command/execute", "bogus", "none", 0))
          => /\ UNCHANGED <<outbox, next_id, started, listening, stack>>
             /\ th'[Main].pc = "run"]_vars

\* C11: reading a Request whose method is not registered appends exactly
\* one error Response with the same id and code -32601, changes nothing
\* else, and leaves the reader in its loop.
C11_UnknownMethodGetsMethodNotFound ==
    [][\A i \in HostReqIds :
          Reads(Request(i, "bogus/method", 0))
          => /\ outbox' = Append(outbox, Msg(i, "none", "none", "e32601", 0))
             /\ UNCHANGED <<next_id, pending, stack, wizVars>>
             /\ th' = th
             /\ th[Main].pc = "run"]_vars

\* C11 witness: the error Response was written inside a send_request wait
\* loop, which goes on reading
C11_Witness ==
    /\ stack # <<>>
    /\ th[Main].pc = "run"
    /\ outbox # <<>>
    /\ \E i \in HostReqIds : Last(outbox) = Msg(i, "none", "none", "e32601", 0)

\* C12: reading a message that carries a result or an error writes no
\* frame, in whichever loop it is read.
C12_ResponseNeverAnswered ==
    [][\A m \in HostMsgs : (IsResponse(m) /\ Reads(m)) => outbox' = outbox]_vars

\* the Response frames written with id i
ResponsesTo(i) == {k \in 1..Len(outbox) : IsResponse(outbox[k]) /\ outbox[k].id = i}

C14_ShutdownAlwaysAnswered ==
    (th[Main].shutId # NoId /\ th[Main].pc \in {"done", "dead", "exited"})
        => /\ th[Main].pc = "exited"
           /\ outbox # <<>>
           /\ \E k \in 1..Len(outbox) : outbox[k] = Response(th[Main].shutId, "ok")

\* a ui/closeWindow Request that carries the handle h
IsCloseOf(f, h) == f.method = "ui/closeWindow" /\ f.body = "none" /\ f.arg = h

\* C16: a worker that has left execute_patient_lookup after storing a
\* window handle has had a ui/closeWindow Request carrying that handle sent
\* (by its own teardown or by the main thread's) and the handle cleared.
C16_EveryExitPathTearsDown ==
    \A w \in Workers :
        (variant = "wizard" /\ th[w].pc \in {"done", "dead"} /\ hist.held[w] # 0)
        => /\ \E k \in 1..Len(outbox) : IsCloseOf(outbox[k], hist.held[w])
           /\ wizard_window_id # hist.held[w]

\* C17: teardown takes effect once: no two ui/closeWindow Requests carry
\* the same handle, and no thread raises in stop_http_server because the
\* other one cleared http_server.
C17_TeardownExactlyOnce ==
    /\ \A j, k \in 1..Len(outbox) :
          (j < k /\ outbox[j].arg # 0 /\ IsCloseOf(outbox[j], outbox[j].arg))
          => ~IsCloseOf(outbox[k], outbox[j].arg)
    /\ \A t \in Threads : th[t].pc # "dead"
    /\ hist.mainErr # "stop_http_server"

\* C19: in the wizard, once a window/closed Notification naming a handle
\* has been read, no ui/closeWindow Request carrying that handle is written.
C19_ClosedWindowNotClosedAgain ==
    [][(variant = "wizard" /\ Len(outbox') > Len(outbox))
          => \A h \in hist.invalid : ~IsCloseOf(Last(outbox'), h)]_vars

\* C15: when the shutdown Response is written and the process exits, no
\* listener is running and the window handle still held, if any, has been
\* addressed by a ui/closeWindow Request.
C15_BridgeTornDownBeforeShutdownResponse ==
    [][(th[Main].pc # "exited" /\ th'[Main].pc = "exited")
          => /\ listening' = {}
             /\ \/ wizard_window_id' = 0
                \/ \E k \in 1..Len(outbox') : IsCloseOf(outbox'[k], wizard_window_id')]_vars

\* the handle h of windows.py is no longer valid: the host has reported
\* the window closed, or a ui/closeWindow Request carrying h has been
\* answered with success and no call issued after it is still waiting
Stale(h) ==
    \/ h \in hist.invalid
    \/ /\ stack # <<>>
       /\ Last(stack).at = "ui/closeWindow"
       /\ Last(stack).arg = h
       /\ Last(stack).request_id \in hist.owed
       /\ pending[Last(stack).request_id].body = "ok"

\* C18: in windows.py no ui/closeWindow Request carries a handle that has
\* been invalidated.
C18_StaleHandleNotReused ==
    [][(variant = "windows" /\ Len(outbox') > Len(outbox))
          => \A h \in 1..next_id : Stale(h) => ~IsCloseOf(Last(outbox'), h)]_vars

\* C20: once the input is at end of file inside the header loop,
\* read_message returns None; and a header block with Content-Length 0
\* or with no Content-Length header makes it return None.
C20_EndOfStreamReturnsNone ==
    /\ (rd.pc = "readline" /\ rd.in = <<>>)
          ~> (rd.pc = "returned" /\ rd.result = "None")
    /\ [][(/\ rd.pc = "length"
           /\ \/ ContentLength \notin DOMAIN rd.headers
              \/ rd.headers[ContentLength] = <<"0">>)
             => (rd'.pc = "returned" /\ rd'.result = "None")]_vars

\* C21: reading what write_message wrote gives the messages back, equal
\* and in order, each read consuming exactly its frame: read_message never
\* raises, what it has returned is a prefix of what was written, and
\* after each return the stream holds exactly the frames not yet read.
C21_RoundTrip ==
    rd.sent # <<>> =>
        /\ rd.pc # "raised"
        /\ Len(rd.out) <= Len(rd.sent)
        /\ \A k \in 1..Len(rd.out) : rd.out[k] = rd.sent[k]
        /\ rd.pc = "returned" =>
              /\ rd.result = "msg"
              /\ rd.msg = rd.sent[Len(rd.out)]
              /\ rd.in = Concat([k \in 1..(Len(rd.sent) - Len(rd.out)) |->
                                    write_message(rd.sent[Len(rd.out) + k])])

\* two frames, the first holding the escaped characters, both read back
C21_Witness ==
    /\ rd.pc = "returned"
    /\ Len(rd.sent) = 2
    /\ rd.sent[1] = RequestSample
    /\ rd.out = rd.sent
    /\ rd.in = <<>>

\* C22: in the single-threaded variants a frame on which read_message
\* raises is fatal, in the main loop and in a send_request wait loop alike:
\* the step that reads it writes nothing and leaves the main loop, and
\* from then on the process reads no frame and writes nothing.
C22_BadFrameIsFatal ==
    [][/\ (variant \in SingleThreaded /\ Reads(BadFrame))
            => (outbox' = outbox /\ th'[Main].pc = "done")
       /\ (variant \in SingleThreaded /\ th[Main].pc = "done")
            => (outbox' = outbox /\ inbox' = inbox /\ th'[Main].pc = "done")]_vars

\* the bad frame was read inside a wait loop, after a Request was written
C22_Witness ==
    /\ variant \in SingleThreaded
    /\ th[Main].pc = "done"
    /\ hist.mainErr = "send_request"
    /\ outbox # <<>>

\* C23: once a command's outbound request has failed in the wizard, the
\* main loop keeps running: no exception ends it, and a shutdown Request
\* read afterwards is answered.
C23_FailureIsLocal ==
    [][(hist.failed # {} /\ hist.mainErr = "none") => hist'.mainErr = "none"]_vars

(* ------------------- C24: the capability descriptor -------------------- *)

\* whether the extension's command handler takes a branch other than
\* "Unknown command" for the command c
Recognises(c) ==
    LET n == Msg(NoId, "command/execute", c, "none", 0) IN
    CASE variant = "minimal" -> handle_command_minimal(n).call # "none"
      [] variant = "wizard" -> handle_command_wizard(n).call # "none"
      [] OTHER -> handle_command(n).call # "none"

IsDescriptor(f) == "name" \in DOMAIN f

\* C24: reading the initialize Request i writes the one Response with id i,
\* which carries the extension's name and its declared commands, no other
\* Response with id i is ever written, and each declared command is one the
\* extension's command handler recognises: reading its Notification makes
\* the handler act (a Request is written, or the wizard's worker started).
C24_InitializeDescriptor ==
    [][/\ \A c \in RegisteredCommands : Recognises(c)
       /\ \A i \in HostReqIds :
             Reads(Request(i, "initialize", 0))
                => /\ ResponsesTo(i) = {}
                   /\ Len(outbox') = Len(outbox) + 1
                   /\ SubSeq(outbox', 1, Len(outbox)) = outbox
                   /\ LET r == Last(outbox') IN
                         /\ IsResponse(r) /\ r.id = i /\ r.body = "ok"
                         /\ r.name = ExtensionName
                         /\ r.commands = RegisteredCommands
       /\ \A i \in HostReqIds :
             (\E k \in ResponsesTo(i) : IsDescriptor(outbox[k]))
                => \A k \in 1..Len(outbox') :
                      (IsResponse(outbox'[k]) /\ outbox'[k].id = i)
                          => k \in ResponsesTo(i)
       /\ \A c \in RegisteredCommands :
             Reads(Msg(NoId, "command/execute", c, "none", 0))
                => IF variant = "wizard"
                   THEN started' = started + 1
                   ELSE /\ Len(outbox') = Len(outbox) + 1
                        /\ IsRequestFrame(Last(outbox'))]_vars

\* a test extension has answered initialize while its command's
\* send_request was waiting
C24_Witness ==
    /\ variant \in TestExtensions
    /\ stack # <<>>
    /\ \E k \in 1..Len(outbox) :
          /\ IsDescriptor(outbox[k])
          /\ outbox[k].name = ExtensionName
          /\ outbox[k].commands = RegisteredCommands
          /\ outbox[k].id \in HostReqIds

(* ---------------- C25: servicing inside a wait loop -------------------- *)

\* the inbound Requests read inside a wait loop whose handler has yet to
\* return the Response: each runs above the wait that read it
OwedInsideWait ==
    {stack[k].replyTo : k \in 2..Len(stack)} \ {NoId}

\* C25: while a send_request waits in a single-threaded variant, an
\* inbound Request read by the wait loop is answered before the next
\* inbound message is read: no frame is read while a Request that a wait
\* loop read is still without its Response.
C25_AnsweredBeforeNextRead ==
    [][(/\ variant \in SingleThreaded
        /\ inbox # <<>>
        /\ inbox' = Tail(inbox))
          => \A i \in OwedInsideWait : ResponsesTo(i) # {}]_vars

(* ------------------- C26: the reader of the stream --------------------- *)

\* the step takes a frame off stdin: a read_message call returns
ReadsStream == inbox # <<>> /\ inbox' = Tail(inbox)

\* C26: in the wizard every frame is read by the main thread in its
\* loop: the step that takes a frame off stdin is main()'s, no worker in
\* its code and no HTTP handler moves in it (a worker may be started by
\* it), so no two threads read the stream.
C26_OnlyMainReads ==
    [][(variant = "wizard" /\ ReadsStream)
          => /\ th[Main].pc = "run"
             /\ hpc' = hpc
             /\ \A w \in Workers :
                   \/ th'[w] = th[w]
                   \/ th[w].pc = "idle" /\ th'[w].pc = "reset_result"]_vars

\* the main thread has read the Response a worker's send_request waits for
C26_Witness ==
    /\ variant = "wizard"
    /\ th[Main].pc = "run"
    /\ \E w \in Workers : th[w].pc = "sr_wait" /\ th[w].reqid \in evSet

(* ---------------- C27: the reader and the waiting calls ---------------- *)

\* C27: in the wizard send_request never blocks the reader thread: the
\* main thread, whose loop is the only reader of the stream, is never the
\* one waiting in send_request for a Response, on the shutdown path and
\* on the teardown after its loop alike.
C27_ReaderNeverWaits ==
    variant = "wizard" => th[Main].pc # "sr_wait"

(* -------------------- C28: the keys of _pending ------------------------ *)

\* the ids of the send_request calls that have registered their entry and
\* have neither returned nor raised
InFlight ==
    {th[t].reqid : t \in {u \in Threads : th[u].pc \in {"sr_deref", "sr_wait", "sr_collect"}}}

\* C28: in the wizard the keys of _pending are exactly the ids of the
\* send_request calls issued and not yet returned or raised.
C28_PendingIsInFlight ==
    variant = "wizard" => DOMAIN pending = InFlight

(* ---------------------- C29: one bridge instance ----------------------- *)

\* the workers running execute_patient_lookup
RunningWorkers == {w \in Workers : th[w].pc \notin {"idle", "done", "dead"}}

\* C29: at most one bridge instance is active: never more than one HTTP
\* listener runs, and never more than one worker uses wizard_result,
\* wizard_event and wizard_window_id, also when a second
\* wizard/patientLookup arrives while the first invocation waits.
C29_OneBridgeInstance ==
    variant = "wizard"
        => Cardinality(listening) <= 1 /\ Cardinality(RunningWorkers) <= 1

(* --------------------- C30: malformed POST bodies ---------------------- *)

\* the last POST was to /api/search or /api/apply with a body that is not
\* JSON
MalformedPost(h) ==
    /\ h.http # <<>>
    /\ Last(h.http).path \in {"/api/search", "/api/apply"}
    /\ Last(h.http).body # <<>>
    /\ ~IsJson(Last(h.http).body)

\* C30: a POST to /api/search or /api/apply whose body is not JSON is
\* answered with a JSON error payload, leaves wizard_result and
\* wizard_event as they were, and the listener goes on serving.
C30_MalformedBodyAnswered ==
    [][(posts' = posts + 1 /\ MalformedPost(hist'))
          => /\ Last(hist'.http).reply = "failure"
             /\ wizard_result' = wizard_result
             /\ wizard_event' = wizard_event
             /\ listening' = listening]_vars

(* ------------------- C31: unmatched Responses --------------------------- *)

\* C31: in the single-threaded variants a Response that matches no
\* send_request in progress is retained nowhere: the _pending table is
\* empty whenever no send_request is in progress.
C31_UnmatchedDiscarded ==
    (variant \in SingleThreaded /\ stack = <<>>) => DOMAIN pending = {}

(* --------------------- C32: when the patch is sent ---------------------- *)

\* C32: a wizard invocation goes on to send editor/patchMessage only after
\* its interaction wait ended because the event was set; an invocation
\* whose wait timed out sends no editor/patchMessage.
C32_PatchOnlyAfterSignal ==
    \A w \in Workers :
        (variant = "wizard" /\ hist.acted[w] = "apply") => hist.waited[w] = "set"

(* ------------------- C33: listeners after teardown ---------------------- *)

\* C33: once an invocation has finished its teardown by stop_http_server,
\* the listener it started serves no longer: no listener of a finished
\* invocation stays open while the process runs.
C33_ListenerReleased ==
    \A w \in Workers :
        (variant = "wizard" /\ th[w].pc = "done") => w \notin listening

(* ------------------ C34: bytes consumed by the body --------------------- *)

\* C34: read_message consumes exactly Content-Length bytes of body, also
\* when the body holds multi-byte characters, so that the next header is
\* read from where the frame ends.
C34_ConsumesContentLengthBytes ==
    [][(rd.pc = "content" /\ rd'.pc # "content")
          => ByteLen(rd.in) - ByteLen(rd'.in) = rd.content_length]_vars

(* ---------------------- C35: whole frames on stdout --------------------- *)

\* C35: in the wizard the writes of the main thread and of the workers are
\* never interleaved: stdout is a concatenation of whole frames, every
\* header followed at once by the content of the same frame.
C35_FramesNotInterleaved ==
    variant = "wizard" =>
        \A k \in 1..Len(outbox) :
            /\ (outbox[k].part = "content")
                  => (k > 1 /\ outbox[k - 1] = Chunk(outbox[k].frame, "header"))
            /\ (outbox[k].part = "header" /\ k < Len(outbox))
                  => outbox[k + 1] = Chunk(outbox[k].frame, "content")

(* -------------------- C36: after the shutdown Response ------------------ *)

\* C36: once the shutdown Response is written and the main thread has
\* called sys.exit, nothing more is written to stdout: a worker still
\* running sends no Request afterwards.
C36_SilentAfterShutdown ==
    [][th[Main].pc = "exited" => outbox' = outbox]_vars

(* ---------------------- C37: apply for an unknown MRN ------------------- *)

\* the last POST was an /api/apply whose body parses and names no patient
\* of the table
UnknownApply(h) ==
    /\ h.http # <<>>
    /\ Last(h.http).path = "/api/apply"
    /\ ~PostDataRaises(Last(h.http).body)
    /\ Get(PostData(Last(h.http).body), KMrn, JStr(<<>>)) \notin {JStr(m) : m \in PATIENTS}

\* the last POST was an /api/apply naming a patient of the table, or an
\* /api/cancel
ApplyOrCancel(h) ==
    /\ h.http # <<>>
    /\ \/ Last(h.http).path = "/api/cancel"
       \/ /\ Last(h.http).path = "/api/apply"
          /\ ~PostDataRaises(Last(h.http).body)
          /\ Get(PostData(Last(h.http).body), KMrn, JStr(<<>>)) \in {JStr(m) : m \in PATIENTS}

\* C37: POST /api/apply with an MRN that is not in the patient table is
\* answered with success false, assigns no wizard_result and does not set
\* wizard_event; only an apply for a known patient or a cancel sets the
\* event or the result.
C37_UnknownMrnSignalsNothing ==
    [][/\ (posts' = posts + 1 /\ UnknownApply(hist'))
            => /\ Last(hist'.http).reply = "failure"
               /\ wizard_result' = wizard_result
               /\ wizard_event' = wizard_event
       /\ (posts' = posts + 1 /\ (wizard_event' # wizard_event \/ wizard_result' # wizard_result))
            => ApplyOrCancel(hist')]_vars

\* an apply for an unknown MRN was refused and the worker still waits
C37_Witness ==
    /\ UnknownApply(hist)
    /\ Last(hist.http).body # <<>>
    /\ Last(hist.http).reply = "failure"
    /\ ~wizard_event
    /\ wizard_result = "None"
    /\ th[1].pc = "ui_wait"

(* ---------------------- C38: initialize is static ----------------------- *)

\* C38: handling an initialize Request changes no runtime state: no
\* listener is started, no request id is consumed and no pending entry is
\* created, so the set of running listeners is the same after it.
C38_InitializeIsStatic ==
    [][\A i \in HostReqIds :
          Reads(Request(i, "initialize", 0))
             => /\ listening' = listening
                /\ http_server' = http_server
                /\ started' = started
                /\ next_id' = next_id
                /\ pending' = pending]_vars

(* ------------- C39: every window the host opens is closed --------------- *)

\* the ids send_request can allocate in a run: three calls for each worker
\* (ui/openWindow, editor/patchMessage, ui/closeWindow) and the
\* ui/closeWindow of the main thread
RequestIds == 1..(3 * Cardinality(Workers) + 1)

\* the host has opened a window for the ui/openWindow Request i and its
\* Response, which names the handle, is on the stream
HostOpened(i) ==
    /\ variant = "wizard"
    /\ inbox # <<>>
    /\ Head(inbox) = HostResponse(i, "ok")
    /\ \E k \in 1..Len(outbox) : outbox[k] = Request(i, "ui/openWindow", 0)

\* a ui/closeWindow Request carrying the handle h has been written, or the
\* host has reported the window closed
Addressed(h) ==
    \/ \E k \in 1..Len(outbox) : IsCloseOf(outbox[k], h)
    \/ h \in hist.invalid

\* C39: every window the host opens in answer to a ui/openWindow Request of
\* the wizard is eventually addressed by a ui/closeWindow Request carrying
\* its handle, unless the host reports it closed; also when the Response
\* arrives after send_request has timed out.
C39_OpenedWindowEventuallyClosed ==
    \A i \in RequestIds : HostOpened(i) ~> Addressed(HostResponse(i, "ok").arg)

(* ------------------- C40: "Request lost" is unreachable ------------------ *)

\* C40: send_request of the wizard never raises "Request lost": a thread
\* that re-acquires _message_lock after its wait finds its request id in
\* _pending, and an id leaves _pending only in the second locked section of
\* the send_request call that allocated it.
C40_RequestLostUnreachable ==
    /\ [](\A t \in Threads :
             /\ th[t].ret # Raised("Request lost")
             /\ (variant = "wizard" /\ th[t].pc = "sr_collect")
                   => th[t].reqid \in DOMAIN pending)
    /\ [][variant = "wizard"
            => \A id \in DOMAIN pending \ DOMAIN pending' :
                  \E t \in Threads : /\ th[t].pc = "sr_collect"
                                     /\ th[t].reqid = id
                                     /\ th'[t].pc = "ret"]_vars

\* a worker is about to re-acquire the lock after its wait and its id is a
\* key of the table, from which an earlier call has taken its own entry
C40_Witness ==
    \E w \in Workers :
        /\ variant = "wizard"
        /\ th[w].pc = "sr_collect"
        /\ th[w].reqid \in DOMAIN pending
        /\ \E k \in 1..(th[w].reqid - 1) : k \notin DOMAIN pending

=============================================================================
